---- MODULE Spec2Model ----
(***************************************************************************)
(* The relevance pipeline of the activity tracker: ActivityAnalyzer        *)
(* (analyzer.py), EmbeddingCache (embedding_cache.py), EmbeddingGenerator  *)
(* (embedding_generator.py) and the helpers of utils.py.                   *)
(*                                                                         *)
(* One find_related_work invocation runs at a time; it is cut into steps   *)
(* at the places where the code hands control to a collaborator.  Texts    *)
(* are sequences of string tokens, vectors are pairs of integers, and a    *)
(* similarity is an exact integer number of 1/SCALE units (the rounding of *)
(* floating point is not modelled).                                        *)
(***************************************************************************)
EXTENDS Integers, Sequences, FiniteSets, TLC

VARIABLES
    config,             \* ActivityAnalyzer.config
    cache,              \* rows of the embeddings table, by issue_id
    pc,                 \* position of the find_related_work invocation
    context,            \* argument context
    open_issues,        \* argument open_issues
    context_embedding,  \* _two_phase_analysis: context_embedding
    idx,                \* _two_phase_analysis: position of the for loop
    candidates,         \* _two_phase_analysis: candidates
    llm_candidates,     \* argument candidates of the pending _llm_reasoning call
    in_handler,         \* TRUE inside the except block of find_related_work
    result,             \* value returned by find_related_work
    invocations,        \* find_related_work invocations started so far
    family,             \* which inputs the environment of this run supplies
    route,              \* history: the branch _two_phase_analysis took
    reasoning_calls,    \* history: the candidates argument of every _llm_reasoning call
    completions,        \* history: outcome of every completion request of the invocation
    embed_requests,     \* history: texts sent to the embedding service in the invocation
    cache_reads,        \* history: issue ids looked up in the cache in the invocation
    emb_log,            \* history: per open issue, how its embedding was obtained
    generator_model,    \* EmbeddingGenerator.model, once the generator is constructed
    produced_by,        \* history: per issue id, the model of the generator that
                        \* produced the vector of the row written for it
    last_op,            \* the latest call of the interface of a component (the cache, the
                        \* generator, the similarity, the session analysis), with its result
    latest,             \* history: per issue id, the arguments of the latest set that
                        \* was stored and not removed since
    in_flight,          \* per concurrent caller of the cache, its call and how far it got
    write_lock,         \* the caller whose connection holds the write lock of the
                        \* database file, or 0
    hook,               \* the ActivityTrackerHook: the keys of config it reads,
                        \* session_issues, and the groups of its ProjectGroupManager
    tracker             \* the issues of the GitHub tracker behind the coordinator, an
                        \* issue's number being its position

vars == <<config, cache, pc, context, open_issues, context_embedding, idx,
          candidates, llm_candidates, in_handler, result, invocations, family,
          route, reasoning_calls, completions, embed_requests, cache_reads, emb_log,
          generator_model, produced_by, last_op, latest, in_flight, write_lock,
          hook, tracker>>

\* the variables of the calls of the EmbeddingCache interface
apiVars == <<last_op, latest>>

\* the variables of the concurrent callers of the cache
callVars == <<in_flight, write_lock>>

hookVars == <<hook, tracker>>

\* the variables of a find_related_work invocation
pipelineVars == <<config, pc, context, open_issues, context_embedding, idx,
                  candidates, llm_candidates, in_handler, result, invocations,
                  route, reasoning_calls, completions, embed_requests, cache_reads,
                  emb_log, generator_model, produced_by>>

------------------------------------------------------------------------------
(* Bounds of the model *)

\* invocations of find_related_work in a run of the sequence family
MaxInvocations == 2
\* open issues of the short issue lists
MaxSmall == 2
\* positions of a list at which the embedding service or the cache may fail
MaxFaultIdx == 1
\* entries of the related list of a completion response
MaxRelated == 2
\* issue ids the callers of the EmbeddingCache interface use
MaxCacheIds == 2
\* texts of a generate_batch call
MaxBatch == 3
MaxComponent == 5
MaxShortTranscript == 2
MaxOverCap == 1
MaxTextLen == 2
MaxCallers == 3
MaxIssues == 4

(* Program constants *)

\* open_issues[:20]
LLMOnlyCap == 20
\* candidates[:10]
TopK == 10
\* self.config.get("similarity_threshold", 0.7), in 1/SCALE units
DefaultThreshold == 7000
\* unit of a similarity: 1.0 is SCALE
SCALE == 10000
\* the number of messages of a session that are analyzed
SessionCap == 30
\* the number of characters of a message that are put in the prompt
ContentCap == 500

\* Python's None where a text is expected
None == "<None>"
\* no vector: the None of generate and of EmbeddingCache.get
NoEmbedding == <<>>

Min(a, b) == IF a < b THEN a ELSE b
Max(a, b) == IF a > b THEN a ELSE b

\* seq[:n]
Prefix(seq, n) == SubSeq(seq, 1, Min(n, Len(seq)))

\* dict.get(key, default): a dict is a record of its present keys
DictGet(d, key, default) == IF key \in DOMAIN d THEN d[key] ELSE default

\* truth value of a text or None
Truthy(s) == s \notin {None, ""}

------------------------------------------------------------------------------
(* utils.py *)

\* compute_content_hash: SHA-256 of the text, taken as collision free
compute_content_hash(text) == <<"sha256", text>>

------------------------------------------------------------------------------
(* Texts *)

\* IsBlank without the strip: only the empty text
IsEmptyText(text) == Len(text) = 0

\* str.strip() == "" on a token text
IsBlank(text) == \A i \in 1..Len(text) : text[i] \in {"", " "}

RECURSIVE Join(_)
\* " ".join(parts)
Join(parts) ==
    IF Len(parts) = 0 THEN <<>>
    ELSE IF Len(parts) = 1 THEN <<parts[1]>>
    ELSE <<parts[1], " ">> \o Join(Tail(parts))

\* f"{issue.title} {issue.description}"
IssueText(issue) == <<issue.title, " ", issue.description>>

\* an attribute read issue.<name> raises AttributeError
Lacks(issue, name) == name \notin issue.attrs

------------------------------------------------------------------------------
(* The embedding service and cosine similarity *)

\* the vector the embedding service computes for a text
ServiceVector(text) ==
    LET base == CASE text[1] = "login" -> <<20, 15>>
                  [] text[1] = "auth"  -> <<7, 24>>
                  [] text[1] = "oauth" -> <<0, 25>>
                  [] text[1] = "db"    -> <<25, 0>>
                  [] text[1] = "docs"  -> <<-15, -20>>
                  [] text[1] = "misc"  -> <<0, 0>>
                  [] OTHER             -> <<15, 20>>
    IN  IF Len(text) >= 3 /\ text[3] = "edited" THEN <<base[2], base[1]>> ELSE base

\* floor of the square root
ISqrt(n) == CHOOSE r \in 0..n : r * r <= n /\ n < (r + 1) * (r + 1)

Dot(v, w) == v[1] * w[1] + v[2] * w[2]

Norm(v) == ISqrt(Dot(v, v))

\* CosineSimilarity without the clamp to [0, 1]
CosineSimilarityUnclamped(vec1, vec2) ==
    LET dot_product == Dot(vec1, vec2)
        norm1 == Norm(vec1)
        norm2 == Norm(vec2)
    IN  IF norm1 = 0 \/ norm2 = 0 THEN 0
        ELSE (SCALE * dot_product) \div (norm1 * norm2)

\* ActivityAnalyzer._cosine_similarity, in 1/SCALE units
CosineSimilarity(vec1, vec2) ==
    LET dot_product == Dot(vec1, vec2)
        norm1 == Norm(vec1)
        norm2 == Norm(vec2)
    IN  IF norm1 = 0 \/ norm2 = 0 THEN 0
        ELSE Max(0, Min(SCALE, (SCALE * dot_product) \div (norm1 * norm2)))

------------------------------------------------------------------------------
(* embedding_generator.py *)

\* what a call of the generator meets: no client to send the request with, or
\* a request that the service answers, fails, or answers with an invalid vector
EmbedOutcomes == {"ok", "error", "invalid", "no_client"}

\* EmbeddingGenerator.generate: the value returned and whether a request was sent
generate(text, outcome) ==
    IF IsBlank(text) THEN [embedding |-> NoEmbedding, requested |-> FALSE]
    ELSE IF outcome = "no_client" THEN [embedding |-> NoEmbedding, requested |-> FALSE]
    ELSE IF outcome = "ok"
         THEN [embedding |-> ServiceVector(text), requested |-> TRUE]
         ELSE [embedding |-> NoEmbedding, requested |-> TRUE]

------------------------------------------------------------------------------
(* embedding_cache.py *)

IssueIds == 1..(LLMOnlyCap + 1)

NoRow == [present |-> FALSE]

\* pickle_dumps keeping only the first component of the vector
pickle_dumps_lossy(embedding) == [protocol |-> "pickle", array |-> <<embedding[1], 0>>]

\* pickle.dumps(embedding): the BLOB stored in column embedding
pickle_dumps(embedding) == [protocol |-> "pickle", array |-> embedding]

\* pickle.loads(row[0]): intact is FALSE for a BLOB that pickle cannot read
pickle_loads(blob, intact) ==
    IF intact THEN [raised |-> FALSE, value |-> blob.array]
    ELSE [raised |-> TRUE, value |-> NoEmbedding]

Row(embedding, content_hash, model) ==
    [present |-> TRUE, embedding |-> pickle_dumps(embedding), intact |-> TRUE,
     content_hash |-> content_hash, model |-> model]

\* what the backing store does with one operation: it works, the operation
\* fails inside the try block, or sqlite3.connect fails
StoreOutcomes == {"ok", "error", "connect"}

\* SelectRow with the content_hash condition left out of the WHERE clause
SelectRowByIdOnly(c, issue_id, content_hash) ==
    IF c[issue_id].present THEN c[issue_id] ELSE NoRow

\* the row the SELECT of EmbeddingCache.get finds
SelectRow(c, issue_id, content_hash) ==
    IF c[issue_id].present /\ c[issue_id].content_hash = content_hash
    THEN c[issue_id] ELSE NoRow

\* CacheGet without the try block around pickle.loads: a row that cannot be
\* deserialized makes get raise
CacheGetAnyFingerprint(c, issue_id, content_hash, outcome) ==
    IF outcome = "connect" THEN [raised |-> TRUE, value |-> NoEmbedding]
    ELSE IF outcome = "error" THEN [raised |-> FALSE, value |-> NoEmbedding]
    ELSE LET row == SelectRowByIdOnly(c, issue_id, content_hash)
         IN  IF row.present /\ ~pickle_loads(row.embedding, row.intact).raised
             THEN [raised |-> FALSE, value |-> pickle_loads(row.embedding, row.intact).value]
             ELSE [raised |-> FALSE, value |-> NoEmbedding]

CacheGetCorruptRaises(c, issue_id, content_hash, outcome) ==
    IF outcome = "connect" THEN [raised |-> TRUE, value |-> NoEmbedding]
    ELSE IF outcome = "error" THEN [raised |-> FALSE, value |-> NoEmbedding]
    ELSE LET row == SelectRow(c, issue_id, content_hash)
         IN  IF row.present
             THEN [raised |-> pickle_loads(row.embedding, row.intact).raised,
                   value |-> pickle_loads(row.embedding, row.intact).value]
             ELSE [raised |-> FALSE, value |-> NoEmbedding]

\* EmbeddingCache.get
CacheGet(c, issue_id, content_hash, outcome) ==
    IF outcome = "connect" THEN [raised |-> TRUE, value |-> NoEmbedding]
    ELSE IF outcome = "error" THEN [raised |-> FALSE, value |-> NoEmbedding]
    ELSE LET row == SelectRow(c, issue_id, content_hash)
         IN  IF row.present /\ ~pickle_loads(row.embedding, row.intact).raised
             THEN [raised |-> FALSE, value |-> pickle_loads(row.embedding, row.intact).value]
             ELSE [raised |-> FALSE, value |-> NoEmbedding]

\* CacheSet with INSERT OR IGNORE: an existing row of the id is kept
CacheSetVectorOnly(c, issue_id, embedding, model, content_hash, outcome) ==
    IF outcome = "connect" THEN [raised |-> TRUE, cache |-> c]
    ELSE IF outcome = "error" THEN [raised |-> FALSE, cache |-> c]
    ELSE [raised |-> FALSE,
          cache |-> [c EXCEPT ![issue_id] =
                        IF c[issue_id].present
                        THEN Row(embedding, c[issue_id].content_hash, c[issue_id].model)
                        ELSE Row(embedding, content_hash, model)]]

CacheSetKeepExisting(c, issue_id, embedding, model, content_hash, outcome) ==
    IF outcome = "connect" THEN [raised |-> TRUE, cache |-> c]
    ELSE IF outcome = "error" \/ c[issue_id].present THEN [raised |-> FALSE, cache |-> c]
    ELSE [raised |-> FALSE,
          cache |-> [c EXCEPT ![issue_id] = Row(embedding, content_hash, model)]]

\* EmbeddingCache.set
CacheSet(c, issue_id, embedding, model, content_hash, outcome) ==
    IF outcome = "connect" THEN [raised |-> TRUE, cache |-> c]
    ELSE IF outcome = "error" THEN [raised |-> FALSE, cache |-> c]
    ELSE [raised |-> FALSE,
          cache |-> [c EXCEPT ![issue_id] = Row(embedding, content_hash, model)]]

\* Invalidate with the WHERE clause left out of the DELETE
InvalidateAll(c, issue_id, outcome) ==
    IF outcome = "connect" THEN [raised |-> TRUE, cache |-> c]
    ELSE IF outcome = "error" THEN [raised |-> FALSE, cache |-> c]
    ELSE [raised |-> FALSE, cache |-> [i \in DOMAIN c |-> NoRow]]

\* EmbeddingCache.invalidate
Invalidate(c, issue_id, outcome) ==
    IF outcome = "connect" THEN [raised |-> TRUE, cache |-> c]
    ELSE IF outcome = "error" THEN [raised |-> FALSE, cache |-> c]
    ELSE [raised |-> FALSE, cache |-> [c EXCEPT ![issue_id] = NoRow]]

\* EmbeddingCache.clear
Clear(c, outcome) ==
    IF outcome = "connect" THEN [raised |-> TRUE, cache |-> c]
    ELSE IF outcome = "error" THEN [raised |-> FALSE, cache |-> c]
    ELSE [raised |-> FALSE, cache |-> [i \in DOMAIN c |-> NoRow]]

------------------------------------------------------------------------------
(* Inputs of find_related_work *)

\* an issue object: attrs are the attributes it has
Issue(id, title, description, attrs) ==
    [id |-> id, title |-> title, description |-> description, attrs |-> attrs]

AllAttrs == {"id", "title", "description"}

\* the shapes of issue lists the callers supply: titles cycles through the
\* titles, and the issue at position odd (if any) has the given shape
Profiles ==
    { [titles |-> <<"login", "auth", "dup">>, odd |-> 0, shape |-> "plain"],
      [titles |-> <<"oauth", "db", "login", "docs", "misc">>, odd |-> 0, shape |-> "plain"],
      [titles |-> <<"db", "docs", "misc">>, odd |-> 0, shape |-> "plain"],
      [titles |-> <<"login", "auth", "dup">>, odd |-> 1, shape |-> "edited"],
      [titles |-> <<"login", "db", "auth">>, odd |-> 1, shape |-> "no_title"],
      [titles |-> <<"login", "db", "auth">>, odd |-> 2, shape |-> "no_id"],
      [titles |-> <<"db", "login", "auth">>, odd |-> 1, shape |-> "dict"],
      [titles |-> <<"login", "auth", "dup">>, odd |-> 2, shape |-> "null_description"] }

\* the profiles of the sequence family: well-formed issues whose content differs
SequenceProfiles == {p \in Profiles : p.shape \in {"plain", "edited"} /\ Len(p.titles) = 3}

MakeIssue(i, profile) ==
    LET title == profile.titles[((i - 1) % Len(profile.titles)) + 1]
        shape == IF i = profile.odd THEN profile.shape ELSE "plain"
    IN  CASE shape = "plain"    -> Issue(i, title, "details", AllAttrs)
          [] shape = "edited"   -> Issue(i, title, "edited", AllAttrs)
          [] shape = "no_title" -> Issue(i, title, "details", {"id", "description"})
          [] shape = "no_id"    -> Issue(i, title, "details", {"title", "description"})
          [] shape = "dict"     -> Issue(i, title, "details", {})
          [] shape = "null_description" -> Issue(i, title, None, AllAttrs)

MakeIssues(n, profile) == [i \in 1..n |-> MakeIssue(i, profile)]

\* lengths of the issue lists: short ones, and the ones around the two caps
ListLengths(fam) ==
    IF fam = "single"
    THEN (0..MaxSmall) \cup {TopK, TopK + 1, LLMOnlyCap, LLMOnlyCap + 1}
    ELSE 0..MaxSmall

\* the issue lists: short ones of every shape, and well-formed ones around the caps
\* the families in which find_related_work is called several times in a row
Repeating(fam) == fam \in {"sequence", "reconfig", "rerun"}

IssueLists(fam) ==
    { MakeIssues(n, p) : n \in 0..MaxSmall,
                         p \in IF Repeating(fam) THEN SequenceProfiles ELSE Profiles }
    \cup { MakeIssues(n, p) : n \in ListLengths(fam) \ (0..MaxSmall),
                              p \in {q \in Profiles : q.shape = "plain"} }

\* the contexts the callers supply: HookContext is what _capture_context builds
\* outside a git repository
PlainContext == [prompt |-> "fix login", git_status |-> " M auth.py", recent_files |-> "auth.py"]
HookContext == [prompt |-> "fix login", git_status |-> None, recent_files |-> ""]
BareContext == [prompt |-> "fix login"]
EmptyContext == [prompt |-> ""]
NullPromptContext == [prompt |-> None, git_status |-> " M auth.py", recent_files |-> ""]

Contexts(fam) ==
    IF fam = "single"
    THEN {PlainContext, HookContext, BareContext, EmptyContext, NullPromptContext}
    ELSE {PlainContext, HookContext, EmptyContext}

\* the configurations the analyzer is constructed with
Configs == { [repository |-> "owner/repo"],
             [repository |-> "owner/repo", similarity_threshold |-> 8000] }

------------------------------------------------------------------------------
(* analyzer.py: the embedding phase *)

\* ActivityAnalyzer._format_context_for_embedding
FormatContextForEmbedding(ctx) ==
    LET prompt == DictGet(ctx, "prompt", "")
        git == IF Truthy(DictGet(ctx, "git_status", None))
               THEN <<"Git changes:", ctx.git_status>> ELSE <<>>
        files == IF Truthy(DictGet(ctx, "recent_files", None))
                 THEN <<"Recent files:", ctx.recent_files>> ELSE <<>>
    IN  IF prompt = None THEN [raised |-> TRUE, text |-> <<>>]
        ELSE [raised |-> FALSE, text |-> Join(<<prompt>> \o git \o files)]

\* self.config.get("embedding_model", "text-embedding-3-small")
ConfiguredModel(cfg) == DictGet(cfg, "embedding_model", "text-embedding-3-small")

\* GetCachedEmbedding with a fingerprint that does not depend on the content
GetCachedEmbeddingFixedFingerprint(c, cfg, issue_id, content, get_outcome, embed_outcome, set_outcome) ==
    LET content_hash == compute_content_hash(<<>>)
        cached == CacheGet(c, issue_id, content_hash, get_outcome)
        generated == generate(content, embed_outcome)
        stored == CacheSet(c, issue_id, generated.embedding, ConfiguredModel(cfg),
                           content_hash, set_outcome)
    IN  IF cached.raised
        THEN [raised |-> TRUE, embedding |-> NoEmbedding, cache |-> c,
              source |-> "raised", row |-> NoRow, requested |-> FALSE]
        ELSE IF cached.value # NoEmbedding
        THEN [raised |-> FALSE, embedding |-> cached.value, cache |-> c,
              source |-> "cache", row |-> SelectRow(c, issue_id, content_hash),
              requested |-> FALSE]
        ELSE IF generated.embedding = NoEmbedding
        THEN [raised |-> FALSE, embedding |-> NoEmbedding, cache |-> c,
              source |-> "none", row |-> NoRow, requested |-> generated.requested]
        ELSE IF stored.raised
        THEN [raised |-> TRUE, embedding |-> NoEmbedding, cache |-> c,
              source |-> "raised", row |-> NoRow, requested |-> TRUE]
        ELSE [raised |-> FALSE, embedding |-> generated.embedding, cache |-> stored.cache,
              source |-> "generated", row |-> NoRow, requested |-> TRUE]

\* ActivityAnalyzer._get_cached_embedding
GetCachedEmbedding(c, cfg, issue_id, content, get_outcome, embed_outcome, set_outcome) ==
    LET content_hash == compute_content_hash(content)
        cached == CacheGet(c, issue_id, content_hash, get_outcome)
        generated == generate(content, embed_outcome)
        stored == CacheSet(c, issue_id, generated.embedding, ConfiguredModel(cfg),
                           content_hash, set_outcome)
    IN  IF cached.raised
        THEN [raised |-> TRUE, embedding |-> NoEmbedding, cache |-> c,
              source |-> "raised", row |-> NoRow, requested |-> FALSE]
        ELSE IF cached.value # NoEmbedding
        THEN [raised |-> FALSE, embedding |-> cached.value, cache |-> c,
              source |-> "cache", row |-> SelectRow(c, issue_id, content_hash),
              requested |-> FALSE]
        ELSE IF generated.embedding = NoEmbedding
        THEN [raised |-> FALSE, embedding |-> NoEmbedding, cache |-> c,
              source |-> "none", row |-> NoRow, requested |-> generated.requested]
        ELSE IF stored.raised
        THEN [raised |-> TRUE, embedding |-> NoEmbedding, cache |-> c,
              source |-> "raised", row |-> NoRow, requested |-> TRUE]
        ELSE [raised |-> FALSE, embedding |-> generated.embedding, cache |-> stored.cache,
              source |-> "generated", row |-> NoRow, requested |-> TRUE]

\* self.config.get("similarity_threshold", 0.7)
Threshold(cfg) == DictGet(cfg, "similarity_threshold", DefaultThreshold)

\* Retains with >= in place of >
RetainsAtLeast(similarity, threshold) == similarity >= threshold

\* similarity > threshold
Retains(similarity, threshold) == similarity > threshold

\* ProcessIssue without the try block around the body of the loop: a failure
\* of the cache or of the generator leaves the loop
ProcessIssueUnguarded(c, cfg, ctx_embedding, issue, get_outcome, embed_outcome, set_outcome) ==
    LET unreadable == Lacks(issue, "title") \/ Lacks(issue, "description") \/ Lacks(issue, "id")
        got == GetCachedEmbedding(c, cfg, issue.id, IssueText(issue),
                                  get_outcome, embed_outcome, set_outcome)
        similarity == CosineSimilarity(ctx_embedding, got.embedding)
    IN  IF unreadable
        THEN [escaped |-> TRUE, kept |-> <<>>, cache |-> c,
              log |-> [source |-> "unread", embedding |-> NoEmbedding, row |-> NoRow],
              read |-> FALSE, requested |-> FALSE]
        ELSE IF got.raised \/ got.embedding = NoEmbedding
        THEN [escaped |-> TRUE, kept |-> <<>>, cache |-> got.cache,
              log |-> [source |-> got.source, embedding |-> NoEmbedding, row |-> NoRow],
              read |-> TRUE, requested |-> got.requested]
        ELSE [escaped |-> FALSE,
              kept |-> IF Retains(similarity, Threshold(cfg))
                       THEN <<[issue |-> issue, similarity |-> similarity]>> ELSE <<>>,
              cache |-> got.cache,
              log |-> [source |-> got.source, embedding |-> got.embedding, row |-> got.row],
              read |-> TRUE, requested |-> got.requested]

\* the body of the for loop of _two_phase_analysis for one issue: what the try
\* block does, and whether the except block itself raises (it reads issue.id)
ProcessIssue(c, cfg, ctx_embedding, issue, get_outcome, embed_outcome, set_outcome) ==
    LET unreadable == Lacks(issue, "title") \/ Lacks(issue, "description") \/ Lacks(issue, "id")
        got == GetCachedEmbedding(c, cfg, issue.id, IssueText(issue),
                                  get_outcome, embed_outcome, set_outcome)
        similarity == CosineSimilarity(ctx_embedding, got.embedding)
    IN  IF unreadable
        THEN [escaped |-> Lacks(issue, "id"), kept |-> <<>>, cache |-> c,
              log |-> [source |-> "unread", embedding |-> NoEmbedding, row |-> NoRow],
              read |-> FALSE, requested |-> FALSE]
        ELSE IF got.raised \/ got.embedding = NoEmbedding
        THEN [escaped |-> FALSE, kept |-> <<>>, cache |-> got.cache,
              log |-> [source |-> got.source, embedding |-> NoEmbedding, row |-> NoRow],
              read |-> TRUE, requested |-> got.requested]
        ELSE [escaped |-> FALSE,
              kept |-> IF Retains(similarity, Threshold(cfg))
                       THEN <<[issue |-> issue, similarity |-> similarity]>> ELSE <<>>,
              cache |-> got.cache,
              log |-> [source |-> got.source, embedding |-> got.embedding, row |-> got.row],
              read |-> TRUE, requested |-> got.requested]

\* candidates.sort(key=similarity, reverse=True): a stable sort, so the rank of
\* an element counts the larger ones and the equal ones before it
SortBySimilarity(seq) ==
    LET rank(i) == Cardinality({j \in 1..Len(seq) :
                       \/ seq[j].similarity > seq[i].similarity
                       \/ seq[j].similarity = seq[i].similarity /\ j < i}) + 1
    IN  [k \in 1..Len(seq) |-> seq[CHOOSE i \in 1..Len(seq) : rank(i) = k]]

\* TopCandidates without the sort
TopCandidatesUnsorted(seq) == Prefix(seq, TopK)

\* candidates.sort(...); top_candidates = candidates[:10]
TopCandidates(seq) == Prefix(SortBySimilarity(seq), TopK)

\* LLMOnlyCandidates without the [:20]
LLMOnlyCandidatesUncapped(issues) ==
    [i \in 1..Len(issues) |-> [issue |-> issues[i], similarity |-> SCALE]]

\* the candidates _llm_only_analysis builds from open_issues[:20]
LLMOnlyCandidates(issues) ==
    [i \in 1..Len(Prefix(issues, LLMOnlyCap)) |-> [issue |-> issues[i], similarity |-> SCALE]]

------------------------------------------------------------------------------
(* utils.py: sanitize_llm_response, and json.loads *)

\* tokens of a completion text: Fence is the three-backquote marker, and
\* Fence followed by Lang is the marker that opens a json block
Fence == [tok |-> "fence"]
Lang == [tok |-> "json"]
Space == [tok |-> " "]
Garbage == [tok |-> "Not valid JSON at all"]
Json(value) == [tok |-> "value", value |-> value]

RECURSIVE LStrip(_)
LStrip(text) == IF Len(text) > 0 /\ text[1] = Space THEN LStrip(Tail(text)) ELSE text

RECURSIVE RStrip(_)
RStrip(text) ==
    IF Len(text) > 0 /\ text[Len(text)] = Space
    THEN RStrip(SubSeq(text, 1, Len(text) - 1)) ELSE text

\* str.strip()
Strip(text) == RStrip(LStrip(text))

\* sanitize_llm_response without the removal of the closing marker
sanitize_opening_only(response) ==
    LET stripped == Strip(response)
        opened == IF Len(stripped) >= 2 /\ stripped[1] = Fence /\ stripped[2] = Lang
                  THEN SubSeq(stripped, 3, Len(stripped))
                  ELSE IF Len(stripped) >= 1 /\ stripped[1] = Fence
                  THEN Tail(stripped)
                  ELSE stripped
    IN  Strip(opened)

\* sanitize_llm_response
sanitize_llm_response(response) ==
    LET stripped == Strip(response)
        opened == IF Len(stripped) >= 2 /\ stripped[1] = Fence /\ stripped[2] = Lang
                  THEN SubSeq(stripped, 3, Len(stripped))
                  ELSE IF Len(stripped) >= 1 /\ stripped[1] = Fence
                  THEN Tail(stripped)
                  ELSE stripped
        closed == IF Len(opened) >= 1 /\ opened[Len(opened)] = Fence
                  THEN SubSeq(opened, 1, Len(opened) - 1)
                  ELSE opened
    IN  Strip(closed)

\* json.loads: white space around one value is accepted, anything else raises
JsonLoads(text) ==
    LET inner == Strip(text)
    IN  IF Len(inner) = 1 /\ inner[1].tok = "value"
        THEN [raised |-> FALSE, value |-> inner[1].value]
        ELSE [raised |-> TRUE, value |-> [type |-> "none"]]

------------------------------------------------------------------------------
(* analyzer.py: the reasoning phase *)

\* ActivityAnalyzer._build_analysis_prompt raises: the slice of git_status and
\* the join of recent_files when the key holds None, the attribute reads of
\* the issue of each candidate, and the slice of a description that is None
BuildAnalysisPromptRaises(ctx, cands) ==
    \/ DictGet(ctx, "git_status", "None") = None
    \/ DictGet(ctx, "recent_files", "") = None
    \/ \E i \in 1..Len(cands) :
          \/ Lacks(cands[i].issue, "id")
          \/ Lacks(cands[i].issue, "title")
          \/ Lacks(cands[i].issue, "description")
          \/ cands[i].issue.description = None

\* issue_lookup = {c["issue"].id: c["issue"] for c in candidates}: a later
\* candidate with the same id replaces an earlier one
InLookup(cands, id) == \E i \in 1..Len(cands) : cands[i].issue.id = id

Lookup(cands, id) ==
    cands[CHOOSE i \in 1..Len(cands) :
            /\ cands[i].issue.id = id
            /\ \A j \in (i + 1)..Len(cands) : cands[j].issue.id # id].issue

\* the entry of the result list built from one item of the related list
RelatedItem(item, cands) ==
    [issue |-> Lookup(cands, item.issue_id),
     confidence |-> IF item.has_confidence THEN item.confidence ELSE 0,
     reasoning |-> item.reasoning,
     relationship_type |-> IF item.has_type THEN item.relationship_type ELSE "related"]

\* the test of the for loop of _parse_llm_result: "skip", "keep", or "raise"
\* when issue_id is an unhashable value (issue_id not in issue_lookup)
ItemFate(item, cands) ==
    IF ~item.is_dict THEN "skip"
    ELSE IF item.id_kind \in {"absent", "empty"} THEN "skip"
    ELSE IF item.id_kind = "unhashable" THEN "raise"
    ELSE IF ~InLookup(cands, item.issue_id) THEN "skip"
    ELSE "keep"

RECURSIVE ParseItems(_, _)
\* the for loop of _parse_llm_result
ParseItems(items, cands) ==
    IF Len(items) = 0 THEN [raised |-> FALSE, items |-> <<>>]
    ELSE LET fate == ItemFate(items[1], cands)
             rest == ParseItems(Tail(items), cands)
         IN  IF fate = "raise" \/ rest.raised THEN [raised |-> TRUE, items |-> <<>>]
             ELSE IF fate = "skip" THEN rest
             ELSE [raised |-> FALSE, items |-> <<RelatedItem(items[1], cands)>> \o rest.items]

\* ActivityAnalyzer._parse_llm_result
ParseLLMResult(parsed, cands) ==
    IF parsed.type # "object" THEN [raised |-> TRUE, items |-> <<>>]
    ELSE IF ~parsed.has_related THEN [raised |-> FALSE, items |-> <<>>]
    ELSE IF ~parsed.related_is_list THEN [raised |-> FALSE, items |-> <<>>]
    ELSE ParseItems(parsed.related, cands)

\* the try block of _llm_reasoning for one outcome of the completion request:
\* every exception ends in return []
ReasoningResult(outcome, cands) ==
    IF outcome.kind # "response" THEN <<>>
    ELSE LET loaded == JsonLoads(sanitize_llm_response(outcome.text))
             parsed_items == ParseLLMResult(loaded.value, cands)
         IN  IF loaded.raised \/ parsed_items.raised THEN <<>> ELSE parsed_items.items

------------------------------------------------------------------------------
(* The completion service *)

\* an item of the related list of a response
Item(is_dict, id_kind, issue_id) ==
    [is_dict |-> is_dict, id_kind |-> id_kind, issue_id |-> issue_id,
     has_confidence |-> TRUE, confidence |-> 9000, reasoning |-> "same work",
     has_type |-> TRUE, relationship_type |-> "duplicate"]

\* the ids the service names: the first two issues, and one past the cap
NamedIds == {1, 2, LLMOnlyCap + 1}

\* an item that names an issue, with the confidence and relationship_type keys
\* it carries: item.get("confidence", 0.0), item.get("relationship_type", "related")
ItemWith(issue_id, has_confidence, confidence, has_type, relationship_type) ==
    [is_dict |-> TRUE, id_kind |-> "id", issue_id |-> issue_id,
     has_confidence |-> has_confidence, confidence |-> confidence,
     reasoning |-> "touches the same file",
     has_type |-> has_type, relationship_type |-> relationship_type]

\* items whose confidence is 1.5, absent, 0.3 or -0.5, and whose
\* relationship_type is outside the vocabulary, absent, or spelled out
VariedItems ==
    { ItemWith(2, TRUE, 15000, TRUE, "unknown"),
      ItemWith(1, FALSE, 0, FALSE, ""),
      ItemWith(2, TRUE, 3000, TRUE, "blocker"),
      ItemWith(1, TRUE, -5000, TRUE, "related") }

Items ==
    {Item(TRUE, "id", k) : k \in NamedIds}
    \cup {Item(FALSE, "absent", 0), Item(TRUE, "absent", 0), Item(TRUE, "empty", 0),
          Item(TRUE, "unhashable", 0)}
    \cup VariedItems

RelatedLists(fam) ==
    IF fam = "responses"
    THEN UNION {[1..n -> Items] : n \in 0..MaxRelated}
    ELSE {<<>>, <<Item(TRUE, "id", 2), Item(TRUE, "id", 1)>>}

\* parsed JSON values
JsonObject(related) ==
    [type |-> "object", has_related |-> TRUE, related_is_list |-> TRUE, related |-> related]
JsonObjectWithoutRelated ==
    [type |-> "object", has_related |-> FALSE, related_is_list |-> FALSE, related |-> <<>>]
JsonObjectRelatedNotList ==
    [type |-> "object", has_related |-> TRUE, related_is_list |-> FALSE, related |-> <<>>]
JsonArray ==
    [type |-> "array", has_related |-> FALSE, related_is_list |-> FALSE, related |-> <<>>]

\* the texts the completion service answers with
ResponseTexts(fam) ==
    {<<Json(JsonObject(r))>> : r \in RelatedLists(fam)}
    \cup { <<Json(JsonObjectWithoutRelated)>>, <<Json(JsonObjectRelatedNotList)>>,
           <<Json(JsonArray)>>, <<Garbage>>,
           <<Space, Fence, Lang, Space, Json(JsonObject(<<Item(TRUE, "id", 1)>>)), Space, Fence>>,
           <<Fence, Space, Json(JsonObject(<<Item(TRUE, "id", 1)>>)), Space, Fence, Space>> }

\* what the completion service does with one request
CompletionOutcomes(fam) ==
    { [kind |-> "raise", text |-> <<>>], [kind |-> "timeout", text |-> <<>>],
      [kind |-> "null_content", text |-> <<>>] }
    \cup {[kind |-> "response", text |-> t] : t \in ResponseTexts(fam)}

------------------------------------------------------------------------------
(* Initial states *)

EmptyCache == [i \in IssueIds |-> NoRow]

\* a cache earlier runs have filled: row 2 can no longer be deserialized
WarmCache ==
    [i \in IssueIds |->
        CASE i = 1 -> Row(<<20, 15>>, compute_content_hash(<<"login", " ", "details">>),
                          "text-embedding-3-small")
          [] i = 2 -> [Row(<<7, 24>>, compute_content_hash(<<"auth", " ", "details">>),
                           "text-embedding-3-small") EXCEPT !.intact = FALSE]
          [] i = 3 -> Row(<<15, 20>>, compute_content_hash(<<"dup", " ", "details">>),
                          "text-embedding-3-small")
          [] OTHER -> NoRow]

NoLog == [source |-> "pending", embedding |-> NoEmbedding, row |-> NoRow]

\* self._embedding_generator = None
Unbuilt == "<unbuilt>"

\* no call of the EmbeddingCache interface yet
NoOp == [op |-> "none", issue_id |-> 0, content_hash |-> <<>>, embedding |-> NoEmbedding,
         model |-> "", outcome |-> "ok", raised |-> FALSE, returned |-> NoEmbedding,
         before |-> NoRow]

\* no set stored for the issue id
NoSet == [present |-> FALSE]

\* no ActivityTrackerHook has been constructed
NoHook == [config |-> <<>>, session_issues |-> <<>>, groups |-> <<>>]

InitCommon ==
    /\ config \in Configs
    /\ pc = "idle"
    /\ context = EmptyContext
    /\ open_issues = <<>>
    /\ context_embedding = NoEmbedding
    /\ idx = 0
    /\ candidates = <<>>
    /\ llm_candidates = <<>>
    /\ in_handler = FALSE
    /\ result = <<>>
    /\ invocations = 0
    /\ route = "none"
    /\ reasoning_calls = <<>>
    /\ completions = <<>>
    /\ embed_requests = <<>>
    /\ cache_reads = <<>>
    /\ emb_log = <<>>
    /\ generator_model = Unbuilt
    /\ produced_by = [i \in IssueIds |-> Unbuilt]
    /\ last_op = NoOp
    /\ latest = [i \in IssueIds |-> NoSet]
    /\ in_flight = <<>>
    /\ write_lock = 0

Init ==
    /\ InitCommon
    /\ hook = NoHook
    /\ tracker = <<>>
    /\ family = "single"
    /\ cache \in {EmptyCache, WarmCache}

InitSeq ==
    /\ InitCommon
    /\ hook = NoHook
    /\ tracker = <<>>
    /\ family = "sequence"
    /\ cache = EmptyCache

InitResponses ==
    /\ InitCommon
    /\ hook = NoHook
    /\ tracker = <<>>
    /\ family = "responses"
    /\ cache = EmptyCache

------------------------------------------------------------------------------
(* Actions *)

\* FindRelatedWork without the check of an empty open_issues
FindRelatedWorkNoEmptyCheck ==
    /\ pc \in {"idle", "returned", "raised"}
    /\ invocations < (IF Repeating(family) THEN MaxInvocations ELSE 1)
    /\ \E ctx \in Contexts(family), issues \in IssueLists(family) :
          /\ context' = ctx
          /\ open_issues' = issues
          /\ emb_log' = [i \in 1..Len(issues) |-> NoLog]
          /\ pc' = "two_phase"
    /\ invocations' = invocations + 1
    /\ context_embedding' = NoEmbedding
    /\ idx' = 0
    /\ candidates' = <<>>
    /\ llm_candidates' = <<>>
    /\ in_handler' = FALSE
    /\ result' = <<>>
    /\ route' = "none"
    /\ reasoning_calls' = <<>>
    /\ completions' = <<>>
    /\ embed_requests' = <<>>
    /\ cache_reads' = <<>>
    /\ UNCHANGED <<config, cache, family>>
    /\ UNCHANGED <<generator_model, produced_by, last_op, latest, callVars, hookVars>>

\* find_related_work is called: the empty-list check and the call of _two_phase_analysis
FindRelatedWork ==
    /\ pc \in {"idle", "returned", "raised"}
    /\ invocations < (IF Repeating(family) THEN MaxInvocations ELSE 1)
    /\ \E ctx \in Contexts(family), issues \in IssueLists(family) :
          /\ context' = ctx
          /\ open_issues' = issues
          /\ emb_log' = [i \in 1..Len(issues) |-> NoLog]
          /\ pc' = IF Len(issues) = 0 THEN "returned" ELSE "two_phase"
    /\ invocations' = invocations + 1
    /\ context_embedding' = NoEmbedding
    /\ idx' = 0
    /\ candidates' = <<>>
    /\ llm_candidates' = <<>>
    /\ in_handler' = FALSE
    /\ result' = <<>>
    /\ route' = "none"
    /\ reasoning_calls' = <<>>
    /\ completions' = <<>>
    /\ embed_requests' = <<>>
    /\ cache_reads' = <<>>
    /\ UNCHANGED <<config, cache, family>>
    /\ UNCHANGED <<generator_model, produced_by, last_op, latest, callVars, hookVars>>

\* CallLLMOnly replaced by return []
CallLLMOnlySkipped ==
    /\ llm_candidates' = <<>>
    /\ pc' = "returned"

\* _llm_only_analysis(context, open_issues[:20]) up to its call of _llm_reasoning
CallLLMOnly ==
    /\ llm_candidates' = LLMOnlyCandidates(open_issues)
    /\ pc' = IF Len(open_issues) = 0 THEN "returned" ELSE "llm_reasoning"

\* _two_phase_analysis up to the for loop: the context text and its embedding
EmbedContext ==
    /\ pc = "two_phase"
    /\ LET formatted == FormatContextForEmbedding(context)
       IN  IF formatted.raised
           THEN /\ pc' = "fallback"
                /\ route' = "format_raised"
                /\ UNCHANGED <<context_embedding, idx, llm_candidates, embed_requests>>
           ELSE \E outcome \in EmbedOutcomes :
                  LET made == generate(formatted.text, outcome)
                  IN  /\ embed_requests' = IF made.requested
                                           THEN Append(embed_requests, formatted.text)
                                           ELSE embed_requests
                      /\ context_embedding' = made.embedding
                      /\ IF made.embedding = NoEmbedding
                         THEN CallLLMOnly /\ route' = "no_context_embedding" /\ UNCHANGED idx
                         ELSE /\ pc' = "loop" /\ idx' = 1 /\ route' = "loop"
                              /\ UNCHANGED llm_candidates
    /\ UNCHANGED <<config, cache, context, open_issues, candidates, in_handler, result,
                   invocations, family, reasoning_calls, completions, cache_reads, emb_log>>
    /\ generator_model' = IF FormatContextForEmbedding(context).raised
                              \/ generator_model # Unbuilt
                           THEN generator_model ELSE ConfiguredModel(config)
    /\ UNCHANGED <<produced_by, last_op, latest, callVars, hookVars>>

\* the outcomes the collaborators may have at position i of the list; in the
\* rerun family the store and the embedding service answer every call made
\* for a candidate
Faults(i, all) == IF family # "rerun" /\ i <= MaxFaultIdx THEN all ELSE {"ok"}

\* one iteration of the for loop of _two_phase_analysis
ScoreIssue ==
    /\ pc = "loop"
    /\ idx <= Len(open_issues)
    /\ \E get_outcome \in Faults(idx, StoreOutcomes),
          embed_outcome \in Faults(idx, EmbedOutcomes),
          set_outcome \in Faults(idx, StoreOutcomes) :
          LET issue == open_issues[idx]
              done == ProcessIssue(cache, config, context_embedding, issue,
                                   get_outcome, embed_outcome, set_outcome)
          IN  /\ cache' = done.cache
              /\ emb_log' = [emb_log EXCEPT ![idx] = done.log]
              /\ cache_reads' = IF done.read THEN Append(cache_reads, issue.id)
                                ELSE cache_reads
              /\ embed_requests' = IF done.requested
                                   THEN Append(embed_requests, IssueText(issue))
                                   ELSE embed_requests
              /\ IF done.escaped
                 THEN pc' = "fallback" /\ route' = "loop_escaped" /\ UNCHANGED <<idx, candidates>>
                 ELSE /\ pc' = "loop"
                      /\ idx' = idx + 1
                      /\ candidates' = candidates \o done.kept
                      /\ UNCHANGED route
    /\ UNCHANGED <<config, context, open_issues, context_embedding, llm_candidates,
                   in_handler, result, invocations, family, reasoning_calls, completions>>
    /\ produced_by' = IF cache' # cache
                       THEN [produced_by EXCEPT ![open_issues[idx].id] = generator_model]
                       ELSE produced_by
    /\ UNCHANGED <<generator_model, last_op, latest, callVars, hookVars>>

\* _two_phase_analysis after the for loop
FinishPreFilter ==
    /\ pc = "loop"
    /\ idx > Len(open_issues)
    /\ IF candidates = <<>>
       THEN CallLLMOnly /\ route' = "no_candidates"
       ELSE /\ llm_candidates' = TopCandidates(candidates)
            /\ pc' = "llm_reasoning"
            /\ route' = "prefilter"
    /\ UNCHANGED <<config, cache, context, open_issues, context_embedding, idx, candidates,
                   in_handler, result, invocations, family, reasoning_calls, completions,
                   embed_requests, cache_reads, emb_log>>
    /\ UNCHANGED <<generator_model, produced_by, last_op, latest, callVars, hookVars>>

\* Fallback that returns [] instead of calling _llm_only_analysis
FallbackReturnsEmpty ==
    /\ pc = "fallback"
    /\ in_handler' = TRUE
    /\ pc' = "returned"
    /\ result' = <<>>
    /\ UNCHANGED <<config, cache, context, open_issues, context_embedding, idx, candidates,
                   llm_candidates, invocations, family, route, reasoning_calls, completions,
                   embed_requests, cache_reads, emb_log>>
    /\ UNCHANGED <<generator_model, produced_by, last_op, latest, callVars, hookVars>>

\* the except block of find_related_work
Fallback ==
    /\ pc = "fallback"
    /\ in_handler' = TRUE
    /\ CallLLMOnly
    /\ UNCHANGED <<config, cache, context, open_issues, context_embedding, idx, candidates,
                   result, invocations, family, route, reasoning_calls, completions,
                   embed_requests, cache_reads, emb_log>>
    /\ UNCHANGED <<generator_model, produced_by, last_op, latest, callVars, hookVars>>

\* where _llm_reasoning goes when the prompt cannot be built: the exception
\* leaves it, into the except block of find_related_work or out of that block
PromptExit(handler) == IF handler THEN "raised" ELSE "fallback"

\* CompletionExit without the try block: a failed request leaves _llm_reasoning
CompletionExitUncaught(outcome, handler) ==
    IF outcome.kind \in {"raise", "timeout"}
    THEN IF handler THEN "raised" ELSE "fallback"
    ELSE "returned"

\* CompletionExit with only the request inside the try block: a response that
\* cannot be read or parsed leaves _llm_reasoning
CompletionExitParseUncaught(outcome, handler) ==
    IF \/ outcome.kind = "null_content"
       \/ outcome.kind = "response" /\ JsonLoads(sanitize_llm_response(outcome.text)).raised
    THEN IF handler THEN "raised" ELSE "fallback"
    ELSE "returned"

\* where _llm_reasoning goes after the completion request: its try block
\* catches every exception of the request and of the parsing, and returns
CompletionExit(outcome, handler) == "returned"

\* _llm_reasoning: the client check, the prompt, the request and the parsing
LLMReasoning ==
    /\ pc = "llm_reasoning"
    /\ \E client \in {"available", "missing"} :
          IF client = "missing"
          THEN /\ pc' = "returned"
               /\ result' = <<>>
               /\ reasoning_calls' = Append(reasoning_calls,
                      [candidates |-> llm_candidates, client |-> client, prompt |-> "none"])
               /\ UNCHANGED completions
          ELSE IF BuildAnalysisPromptRaises(context, llm_candidates)
          THEN /\ pc' = PromptExit(in_handler)
               /\ reasoning_calls' = Append(reasoning_calls,
                      [candidates |-> llm_candidates, client |-> client, prompt |-> "raised"])
               /\ UNCHANGED <<result, completions>>
          ELSE \E outcome \in CompletionOutcomes(family) :
                 /\ completions' = Append(completions, outcome)
                 /\ reasoning_calls' = Append(reasoning_calls,
                        [candidates |-> llm_candidates, client |-> client, prompt |-> "built"])
                 /\ pc' = CompletionExit(outcome, in_handler)
                 /\ result' = IF pc' = "returned"
                              THEN ReasoningResult(outcome, llm_candidates) ELSE result
    /\ UNCHANGED <<config, cache, context, open_issues, context_embedding, idx, candidates,
                   llm_candidates, in_handler, invocations, family, route, embed_requests,
                   cache_reads, emb_log>>
    /\ UNCHANGED <<generator_model, produced_by, last_op, latest, callVars, hookVars>>

Next ==
    \/ FindRelatedWork
    \/ EmbedContext
    \/ ScoreIssue
    \/ FinishPreFilter
    \/ Fallback
    \/ LLMReasoning

\* one invocation, on short lists and on lists around the two caps
Spec == Init /\ [][Next]_vars

InitRerun ==
    /\ InitCommon
    /\ hook = NoHook
    /\ tracker = <<>>
    /\ family = "rerun"
    /\ cache = EmptyCache

\* invocations in a row on an empty store that answers every call
SpecRerun == InitRerun /\ [][Next]_vars

\* several invocations in a row, on short lists whose content changes
SpecSeq == InitSeq /\ [][Next]_vars

\* one invocation on short lists, with every shape of completion response
SpecResponses == InitResponses /\ [][Next]_vars

------------------------------------------------------------------------------
(* The configuration changes between invocations *)

\* the embedding models a configuration may name
EmbeddingModels == {"text-embedding-3-small", "text-embedding-3-large"}

InitReconfig ==
    /\ InitCommon
    /\ hook = NoHook
    /\ tracker = <<>>
    /\ family = "reconfig"
    /\ cache = EmptyCache

\* the owner of the config dict sets config["embedding_model"]: the analyzer
\* holds the dict itself (self.config = config), the generator has read the
\* key once, in its constructor
Reconfigure ==
    /\ pc \in {"idle", "returned", "raised"}
    /\ \E m \in EmbeddingModels \ {ConfiguredModel(config)} :
          config' = [k \in DOMAIN config \cup {"embedding_model"} |->
                        IF k = "embedding_model" THEN m ELSE config[k]]
    /\ UNCHANGED <<cache, pc, context, open_issues, context_embedding, idx, candidates,
                   llm_candidates, in_handler, result, invocations, family, route,
                   reasoning_calls, completions, embed_requests, cache_reads, emb_log,
                   generator_model, produced_by, last_op, latest, callVars, hookVars>>

NextReconfig ==
    \/ Next
    \/ Reconfigure

\* several invocations in a row, the embedding_model of the configuration
\* changing between them
SpecReconfig == InitReconfig /\ [][NextReconfig]_vars

------------------------------------------------------------------------------
(* Calls of the EmbeddingCache interface *)

\* the arguments the callers pass
ApiIds == 1..MaxCacheIds

ApiHashes == { compute_content_hash(<<"login", " ", "details">>),
               compute_content_hash(<<"login", " ", "edited">>) }

\* embedding, model and content_hash of a set
ApiPayloads ==
    { [embedding |-> <<20, 15>>, model |-> "text-embedding-3-small",
       content_hash |-> compute_content_hash(<<"login", " ", "details">>)],
      [embedding |-> <<7, 24>>, model |-> "text-embedding-3-large",
       content_hash |-> compute_content_hash(<<"login", " ", "edited">>)],
      [embedding |-> <<7, 24>>, model |-> "text-embedding-3-small",
       content_hash |-> compute_content_hash(<<"login", " ", "details">>)],
      [embedding |-> <<20, 15>>, model |-> "text-embedding-3-large",
       content_hash |-> compute_content_hash(<<"login", " ", "edited">>)] }

InitCache ==
    /\ InitCommon
    /\ hook = NoHook
    /\ tracker = <<>>
    /\ family = "cache_api"
    /\ cache = EmptyCache

\* await cache.set(issue_id, embedding, model, content_hash)
SetOp ==
    /\ \E id \in ApiIds, payload \in ApiPayloads, outcome \in StoreOutcomes :
          LET done == CacheSet(cache, id, payload.embedding, payload.model,
                               payload.content_hash, outcome)
          IN  /\ cache' = done.cache
              /\ last_op' = [op |-> "set", issue_id |-> id,
                             content_hash |-> payload.content_hash,
                             embedding |-> payload.embedding, model |-> payload.model,
                             outcome |-> outcome, raised |-> done.raised,
                             returned |-> NoEmbedding, before |-> cache[id]]
              /\ latest' = IF outcome = "ok"
                           THEN [latest EXCEPT ![id] =
                                    [present |-> TRUE, embedding |-> payload.embedding,
                                     model |-> payload.model,
                                     content_hash |-> payload.content_hash]]
                           ELSE latest
    /\ UNCHANGED <<pipelineVars, family, callVars, hookVars>>

\* await cache.get(issue_id, content_hash)
GetOp ==
    /\ \E id \in ApiIds, content_hash \in ApiHashes, outcome \in StoreOutcomes :
          LET done == CacheGet(cache, id, content_hash, outcome)
          IN  last_op' = [op |-> "get", issue_id |-> id, content_hash |-> content_hash,
                          embedding |-> NoEmbedding, model |-> "",
                          outcome |-> outcome, raised |-> done.raised,
                          returned |-> done.value, before |-> cache[id]]
    /\ UNCHANGED <<pipelineVars, family, cache, latest, callVars, hookVars>>

\* cache.invalidate(issue_id)
InvalidateOp ==
    /\ \E id \in ApiIds, outcome \in StoreOutcomes :
          LET done == Invalidate(cache, id, outcome)
          IN  /\ cache' = done.cache
              /\ last_op' = [op |-> "invalidate", issue_id |-> id, content_hash |-> <<>>,
                             embedding |-> NoEmbedding, model |-> "",
                             outcome |-> outcome, raised |-> done.raised,
                             returned |-> NoEmbedding, before |-> cache[id]]
              /\ latest' = IF outcome = "ok" THEN [latest EXCEPT ![id] = NoSet] ELSE latest
    /\ UNCHANGED <<pipelineVars, family, callVars, hookVars>>

\* cache.clear()
ClearOp ==
    /\ \E outcome \in StoreOutcomes :
          LET done == Clear(cache, outcome)
          IN  /\ cache' = done.cache
              /\ last_op' = [op |-> "clear", issue_id |-> 0, content_hash |-> <<>>,
                             embedding |-> NoEmbedding, model |-> "",
                             outcome |-> outcome, raised |-> done.raised,
                             returned |-> NoEmbedding, before |-> NoRow]
              /\ latest' = IF outcome = "ok" THEN [i \in IssueIds |-> NoSet] ELSE latest
    /\ UNCHANGED <<pipelineVars, family, callVars, hookVars>>

NextCache ==
    \/ SetOp
    \/ GetOp
    \/ InvalidateOp
    \/ ClearOp

\* any sequence of calls of set, get, invalidate and clear on an empty store
SpecCache == InitCache /\ [][NextCache]_vars

------------------------------------------------------------------------------
(* Concurrent calls of EmbeddingCache.get, set and invalidate *)

\* the calls the concurrent callers make, each on its own connection: sets of
\* two payloads that differ in vector, model and fingerprint, gets and
\* invalidates, on two ids
ConcurrentCalls ==
    LET payloads == { q \in ApiPayloads :
                        \/ q.embedding = <<20, 15>> /\ q.model = "text-embedding-3-small"
                        \/ q.embedding = <<7, 24>> /\ q.model = "text-embedding-3-large" }
    IN  { [op |-> "set", issue_id |-> id, embedding |-> q.embedding, model |-> q.model,
           content_hash |-> q.content_hash] : id \in {1, 2}, q \in payloads }
        \cup { [op |-> "get", issue_id |-> id, embedding |-> NoEmbedding, model |-> "",
                content_hash |-> q.content_hash] : id \in {1, 2}, q \in payloads }
        \cup { [op |-> "invalidate", issue_id |-> id, embedding |-> NoEmbedding,
                model |-> "", content_hash |-> <<>>] : id \in {1, 2} }

\* a caller enters get, set or invalidate: sqlite3.connect
BeginCall ==
    /\ family = "concurrent"
    /\ Len(in_flight) < MaxCallers
    /\ \E call \in ConcurrentCalls :
          in_flight' = Append(in_flight, [call |-> call, pc |-> "connected",
                                          returned |-> NoEmbedding, committed |-> 0])
    /\ UNCHANGED <<pipelineVars, family, cache, apiVars, write_lock, hookVars>>

\* conn.execute of a statement that writes: the INSERT OR REPLACE of set, the
\* DELETE of invalidate, and the UPDATE of accessed_at of a get that found its
\* row; the connection takes the write lock of the file, and the change stays
\* in its transaction
WriteExecute ==
    /\ write_lock = 0
    /\ \E p \in 1..Len(in_flight) :
          /\ \/ in_flight[p].pc = "connected" /\ in_flight[p].call.op # "get"
             \/ in_flight[p].pc = "selected"
          /\ in_flight' = [in_flight EXCEPT ![p].pc = "executed"]
          /\ write_lock' = p
    /\ UNCHANGED <<pipelineVars, family, cache, apiVars, hookVars>>

\* conn.commit: the whole change reaches the file at once and the lock is
\* released; committed numbers the commits in their order. The rows of the
\* model carry no accessed_at, so the commit of a get leaves them alone
WriteCommit ==
    /\ \E p \in 1..Len(in_flight) :
          /\ in_flight[p].pc = "executed"
          /\ write_lock = p
          /\ LET call == in_flight[p].call
             IN  cache' = IF call.op = "set"
                          THEN CacheSet(cache, call.issue_id, call.embedding, call.model,
                                        call.content_hash, "ok").cache
                          ELSE IF call.op = "invalidate"
                          THEN Invalidate(cache, call.issue_id, "ok").cache
                          ELSE cache
          /\ in_flight' =
                 [in_flight EXCEPT
                    ![p].pc = "done",
                    ![p].committed =
                        1 + Cardinality({ q \in 1..Len(in_flight) :
                                            in_flight[q].committed > 0 })]
          /\ write_lock' = 0
    /\ UNCHANGED <<pipelineVars, family, apiVars, hookVars>>

\* the SELECT of get; pickle.loads of the blob it fetched gives the vector the
\* call returns unless its UPDATE fails
GetSelect ==
    /\ \E p \in 1..Len(in_flight) :
          /\ in_flight[p].pc = "connected"
          /\ in_flight[p].call.op = "get"
          /\ LET call == in_flight[p].call
                 row == SelectRow(cache, call.issue_id, call.content_hash)
             IN  in_flight' =
                     [in_flight EXCEPT
                        ![p].pc = IF row.present THEN "selected" ELSE "done",
                        ![p].returned = CacheGet(cache, call.issue_id,
                                                 call.content_hash, "ok").value]
    /\ UNCHANGED <<pipelineVars, family, cache, apiVars, write_lock, hookVars>>

\* a statement that writes while another connection holds the lock beyond the
\* timeout: sqlite3.OperationalError, caught by the except of the method; set
\* and invalidate give up, and get returns None
Busy ==
    /\ write_lock # 0
    /\ \E p \in 1..Len(in_flight) :
          /\ write_lock # p
          /\ \/ in_flight[p].pc = "connected" /\ in_flight[p].call.op # "get"
             \/ in_flight[p].pc = "selected"
          /\ in_flight' = [in_flight EXCEPT ![p].pc = "done", ![p].returned = NoEmbedding]
    /\ UNCHANGED <<pipelineVars, family, cache, apiVars, write_lock, hookVars>>

InitConcurrent ==
    /\ InitCommon
    /\ hook = NoHook
    /\ tracker = <<>>
    /\ family = "concurrent"
    /\ cache = EmptyCache

NextConcurrent ==
    \/ BeginCall
    \/ WriteExecute
    \/ WriteCommit
    \/ GetSelect
    \/ Busy

\* callers of one store, each making one call, interleaved statement by
\* statement
SpecConcurrent == InitConcurrent /\ [][NextConcurrent]_vars

------------------------------------------------------------------------------
(* EmbeddingCache.get on a store with its time stamps *)

\* a row of the embeddings table with created_at and accessed_at
TimedRow(payload, intact, accessed_at) ==
    [present |-> TRUE, embedding |-> pickle_dumps(payload.embedding), intact |-> intact,
     content_hash |-> payload.content_hash, model |-> payload.model,
     created_at |-> 1, accessed_at |-> accessed_at]

\* the stores a get may meet: per id no row, or a row that was written at
\* time 1 and read last at time 1 or 2, whose blob can be deserialized or not
TimedStores ==
    [ApiIds -> {NoRow} \cup { TimedRow(p, intact, at) :
                                p \in {q \in ApiPayloads : q.embedding = <<20, 15>>},
                                intact \in BOOLEAN, at \in {1, 2} }]

\* the store after EmbeddingCache.get: UPDATE embeddings SET accessed_at and
\* the commit come right after the row was selected, before pickle.loads
TouchOnHit(c, issue_id, content_hash, now, outcome) ==
    IF outcome = "ok" /\ SelectRow(c, issue_id, content_hash).present
    THEN [c EXCEPT ![issue_id].accessed_at = now]
    ELSE c

InitTimed ==
    /\ InitCommon
    /\ hook = NoHook
    /\ tracker = <<>>
    /\ family = "cache_times"
    /\ cache = EmptyCache

\* await cache.get(issue_id, content_hash) at time 3
TimedGetOp ==
    /\ last_op = NoOp
    /\ \E store \in TimedStores, id \in ApiIds, content_hash \in ApiHashes,
          outcome \in StoreOutcomes :
          LET done == CacheGet(store, id, content_hash, outcome)
          IN  last_op' = [op |-> "get", store |-> store, issue_id |-> id,
                          content_hash |-> content_hash, outcome |-> outcome,
                          raised |-> done.raised, returned |-> done.value,
                          after |-> TouchOnHit(store, id, content_hash, 3, outcome)]
    /\ UNCHANGED <<pipelineVars, family, cache, latest, callVars, hookVars>>

\* one get on a store of rows with time stamps
SpecTimed == InitTimed /\ [][TimedGetOp]_vars

------------------------------------------------------------------------------
(* Calls of the EmbeddingGenerator interface *)

\* the components of the embedding of a service response: a number, NaN,
\* infinity, a number beyond the range of float32, and a value that is no number
Finite(x) == [kind |-> "finite", value |-> x]
Special(kind) == [kind |-> kind, value |-> 0]

\* the embedding the service sends for a vector of numbers
Raw(vec) == [i \in 1..Len(vec) |-> Finite(vec[i])]

\* np.array(embedding, dtype=np.float32): raises on a value that is no number,
\* and a number beyond the range of float32 becomes infinity
np_array(embedding) ==
    IF \E i \in 1..Len(embedding) : embedding[i].kind = "text"
    THEN [raised |-> TRUE, value |-> <<>>]
    ELSE [raised |-> FALSE,
          value |-> [i \in 1..Len(embedding) |->
                        IF embedding[i].kind = "huge" THEN Special("inf") ELSE embedding[i]]]

\* ValidateEmbedding without the np.isfinite check
ValidateEmbeddingSizeOnly(embedding) == Len(embedding) # 0

\* EmbeddingGenerator._validate_embedding
ValidateEmbedding(embedding) ==
    /\ Len(embedding) # 0
    /\ \A i \in 1..Len(embedding) : embedding[i].kind = "finite"

\* the values generate returns: None, or an array
NoVector == [none |-> TRUE, array |-> <<>>]
Vector(array) == [none |-> FALSE, array |-> array]

\* the embeddings a response may carry for a text
ShapedEmbedding(text, shape) ==
    CASE shape = "ok"    -> Raw(ServiceVector(text))
      [] shape = "nan"   -> <<Finite(3), Special("nan")>>
      [] shape = "inf"   -> <<Special("inf"), Finite(1)>>
      [] shape = "huge"  -> <<Finite(1), Special("huge")>>
      [] shape = "empty" -> <<>>
      [] shape = "text"  -> <<Special("text"), Finite(1)>>

\* what client.embeddings.create does: it raises, it answers without data
\* entries, or it answers with an embedding per input
EmbedReplies ==
    { [kind |-> "raise", shape |-> "ok"], [kind |-> "no_data", shape |-> "ok"] }
    \cup { [kind |-> "data", shape |-> sh] :
             sh \in {"ok", "nan", "inf", "huge", "empty", "text"} }

\* the try block of generate: the request, response.data[0].embedding, the
\* conversion and the validation
TryGenerate(text, reply) ==
    IF reply.kind \in {"raise", "no_data"} THEN [raised |-> TRUE, value |-> NoVector]
    ELSE LET embedding_array == np_array(ShapedEmbedding(text, reply.shape))
         IN  IF embedding_array.raised THEN [raised |-> TRUE, value |-> NoVector]
             ELSE IF ~ValidateEmbedding(embedding_array.value)
             THEN [raised |-> FALSE, value |-> NoVector]
             ELSE [raised |-> FALSE, value |-> Vector(embedding_array.value)]

\* GenerateCatch without the except block
GenerateCatchNothing(body) == [raised |-> body.raised, returned |-> body.value]

\* except Exception: return None
GenerateCatch(body) ==
    [raised |-> FALSE, returned |-> IF body.raised THEN NoVector ELSE body.value]

\* EmbeddingGenerator.generate, with the response of the service spelled out
GenerateCall(text, client, reply) ==
    IF IsBlank(text) \/ client = "missing"
    THEN [raised |-> FALSE, returned |-> NoVector, requested |-> FALSE]
    ELSE [raised |-> GenerateCatch(TryGenerate(text, reply)).raised,
          returned |-> GenerateCatch(TryGenerate(text, reply)).returned,
          requested |-> TRUE]

\* [None] * len(texts)
AllNone(texts) == [i \in 1..Len(texts) |-> NoVector]

\* the for loop of generate_batch over response.data: one entry per text the
\* request carried; reply.shape is the shape of the first entry
BatchEmbeddings(valid_texts, reply) ==
    LET shape(i) == IF i = 1 THEN reply.shape ELSE "ok"
        converted(i) == np_array(ShapedEmbedding(valid_texts[i], shape(i)))
    IN  IF \E i \in 1..Len(valid_texts) : converted(i).raised
        THEN [raised |-> TRUE, value |-> <<>>]
        ELSE [raised |-> FALSE,
              value |-> [i \in 1..Len(valid_texts) |->
                            IF ValidateEmbedding(converted(i).value)
                            THEN Vector(converted(i).value) ELSE NoVector]]

\* EmbeddingGenerator.generate_batch
generate_batch(texts, client, reply) ==
    LET valid_texts == SelectSeq(texts, LAMBDA t : ~IsBlank(t))
        embeddings == BatchEmbeddings(valid_texts, reply)
    IN  IF Len(texts) = 0
        THEN [raised |-> FALSE, returned |-> <<>>, requested |-> FALSE]
        ELSE IF Len(valid_texts) = 0 \/ client = "missing"
        THEN [raised |-> FALSE, returned |-> AllNone(texts), requested |-> FALSE]
        ELSE IF reply.kind = "raise" \/ embeddings.raised
        THEN [raised |-> FALSE, returned |-> AllNone(texts), requested |-> TRUE]
        ELSE [raised |-> FALSE, returned |-> embeddings.value, requested |-> TRUE]

\* the texts the callers pass
GeneratorTexts == { <<>>, <<" ">>, <<" ", " ">>, <<"login">>, <<"auth">> }

InitGenerator ==
    /\ InitCommon
    /\ hook = NoHook
    /\ tracker = <<>>
    /\ family = "generator"
    /\ cache = EmptyCache

\* await generator.generate(text)
GenerateOp ==
    /\ last_op = NoOp
    /\ \E text \in GeneratorTexts, client \in {"available", "missing"},
          reply \in EmbedReplies :
          LET done == GenerateCall(text, client, reply)
          IN  last_op' = [op |-> "generate", texts |-> <<text>>, client |-> client,
                          reply |-> reply, raised |-> done.raised,
                          returned |-> <<done.returned>>, requested |-> done.requested]
    /\ UNCHANGED <<pipelineVars, family, cache, latest, callVars, hookVars>>

\* await generator.generate_batch(texts)
GenerateBatchOp ==
    /\ last_op = NoOp
    /\ \E texts \in UNION { [1..n -> GeneratorTexts \ {<<" ", " ">>}] : n \in 0..MaxBatch },
          client \in {"available", "missing"},
          reply \in {r \in EmbedReplies : r.kind # "no_data"} :
          LET done == generate_batch(texts, client, reply)
          IN  last_op' = [op |-> "generate_batch", texts |-> texts, client |-> client,
                          reply |-> reply, raised |-> done.raised,
                          returned |-> done.returned, requested |-> done.requested]
    /\ UNCHANGED <<pipelineVars, family, cache, latest, callVars, hookVars>>

NextGenerator ==
    \/ GenerateOp
    \/ GenerateBatchOp

\* one call of generate or generate_batch: the generator keeps nothing from
\* one call to the next
SpecGenerator == InitGenerator /\ [][NextGenerator]_vars

------------------------------------------------------------------------------
(* Calls of ActivityAnalyzer._cosine_similarity *)

\* the vectors of two components whose norm is a whole number, so that the
\* arithmetic in whole numbers is that of the floating point code
WholeNormVectors ==
    { v \in (-MaxComponent..MaxComponent) \X (-MaxComponent..MaxComponent) :
        Norm(v) * Norm(v) = Dot(v, v) }

\* the pairs of vectors the function is called with: two vectors of two
\* components, or two vectors of different sizes (the empty one and one of
\* three components among them)
CosineInputs ==
    LET sized == WholeNormVectors \cup { <<>>, <<3, 4, 0>> }
    IN  (WholeNormVectors \X WholeNormVectors)
        \cup { p \in sized \X sized : Len(p[1]) # Len(p[2]) }

\* the try block of _cosine_similarity: np.dot raises ValueError on two
\* vectors of different sizes
CosineTry(vec1, vec2) ==
    IF Len(vec1) # Len(vec2)
    THEN [raised |-> TRUE, value |-> 0]
    ELSE [raised |-> FALSE, value |-> CosineSimilarity(vec1, vec2)]

\* the whole of _cosine_similarity: except Exception returns 0.0
CosineCall(vec1, vec2) ==
    LET body == CosineTry(vec1, vec2)
    IN  [raised |-> FALSE,
         returned |-> IF body.raised THEN 0 ELSE body.value,
         caught |-> body.raised]

InitCosine ==
    /\ InitCommon
    /\ hook = NoHook
    /\ tracker = <<>>
    /\ family = "cosine"
    /\ cache = EmptyCache

\* self._cosine_similarity(vec1, vec2)
CosineOp ==
    /\ last_op = NoOp
    /\ \E p \in CosineInputs :
          LET done == CosineCall(p[1], p[2])
          IN  last_op' = [op |-> "cosine_similarity", vec1 |-> p[1], vec2 |-> p[2],
                          raised |-> done.raised, returned |-> done.returned,
                          caught |-> done.caught]
    /\ UNCHANGED <<pipelineVars, family, cache, latest, callVars, hookVars>>

\* one call of _cosine_similarity: the function keeps nothing between calls
SpecCosine == InitCosine /\ [][CosineOp]_vars

------------------------------------------------------------------------------
(* Calls of ActivityAnalyzer.analyze_session_work *)

\* Python values by type: value is the text of the value
PyVal(type, value) == [type |-> type, value |-> value]

\* a message of a transcript: a dict in which "role" and "content" may be
\* missing, role is a str or None, and content is a str of len characters,
\* None, a number or a list; id is the position of the message in the transcript
MessageKinds ==
    { "user", "assistant_long", "no_role", "no_content",
      "role_none", "content_none", "content_int", "content_list" }

Text(len) == [type |-> "str", len |-> len]

Message(id, kind) ==
    [ id |-> id,
      has_role |-> kind # "no_role",
      role |-> CASE kind = "role_none" -> None
                 [] kind = "assistant_long" -> "assistant"
                 [] OTHER -> "user",
      has_content |-> kind # "no_content",
      content |-> CASE kind = "content_none" -> [type |-> "none", len |-> 0]
                    [] kind = "content_int" -> [type |-> "int", len |-> 0]
                    [] kind = "content_list" -> [type |-> "list", len |-> 2]
                    [] kind = "assistant_long" -> Text(ContentCap + 1)
                    [] OTHER -> Text(3) ]

\* short transcripts of every kind of message
ShortTranscripts ==
    UNION { { [i \in 1..n |-> Message(i, kinds[i])] : kinds \in [1..n -> MessageKinds] }
            : n \in 0..MaxShortTranscript }

\* transcripts around the cap, of well-formed messages after the first one
LongTranscripts ==
    { [i \in 1..n |-> Message(i, IF i = 1 THEN first
                                  ELSE IF i % 2 = 0 THEN "assistant_long" ELSE "user")]
        : n \in (SessionCap - 1)..(SessionCap + MaxOverCap),
          first \in {"user", "content_none"} }

\* str.upper()
Upper(role) ==
    CASE role = "user" -> "USER"
      [] role = "assistant" -> "ASSISTANT"
      [] role = "unknown" -> "UNKNOWN"

\* one line of _format_messages: f"{role.upper()}: {content[:500]}"; None has
\* no upper(), and None and a number cannot be sliced
FormatMessage(msg) ==
    LET role == IF msg.has_role THEN msg.role ELSE "unknown"
        content == IF msg.has_content THEN msg.content ELSE Text(0)
    IN  IF role = None \/ content.type \in {"none", "int"}
        THEN [raised |-> TRUE, line |-> [id |-> msg.id, role |-> "", content |-> Text(0)]]
        ELSE [raised |-> FALSE,
              line |-> [id |-> msg.id, role |-> Upper(role),
                        content |-> [type |-> content.type,
                                     len |-> Min(content.len, ContentCap)]]]

\* ActivityAnalyzer._format_messages
FormatMessages(messages) ==
    [ raised |-> \E i \in 1..Len(messages) : FormatMessage(messages[i]).raised,
      lines |-> [i \in 1..Len(messages) |-> FormatMessage(messages[i]).line] ]

\* ActivityAnalyzer._build_session_analysis_prompt: the formatted messages
\* between the fixed instructions
BuildSessionAnalysisPrompt(messages) ==
    LET formatted_messages == FormatMessages(messages)
    IN  [ raised |-> formatted_messages.raised,
          prompt |-> IF formatted_messages.raised THEN <<>> ELSE formatted_messages.lines ]

\* Recent with the first messages instead of the last ones
RecentFirst(messages) == Prefix(messages, SessionCap)

\* messages[-30:]
Recent(messages) ==
    SubSeq(messages, Len(messages) - Min(SessionCap, Len(messages)) + 1, Len(messages))

\* IsEmptyTranscript that never answers yes
IsEmptyTranscriptNever(messages) == FALSE

\* not messages
IsEmptyTranscript(messages) == Len(messages) = 0

\* a field of the object of a response: missing, or present with a value
Missing == [present |-> FALSE, type |-> "none", value |-> ""]
Present(type, value) == [present |-> TRUE, type |-> type, value |-> value]

\* parsed JSON values of a session analysis
SessionObject(completed, summary, new_ideas) ==
    [type |-> "object", completed |-> completed, summary |-> summary,
     new_ideas |-> new_ideas]
SessionOther(type) == [type |-> type]

\* the objects of a response: each key missing, of the expected type, or of
\* another type
SessionObjects ==
    { SessionObject(c, sm, n) :
        c \in { Missing, Present("bool", "true"), Present("bool", "false"),
                Present("str", "yes"), Present("none", "null") },
        sm \in { Missing, Present("str", "Fixed the login bug"), Present("none", "null"),
                 Present("int", "42") },
        n \in { Missing, Present("list", "[idea]"), Present("str", "none"),
                Present("none", "null") } }

\* what the completion service does with the request of a session analysis
SessionOutcomes ==
    { [kind |-> "raise", text |-> <<>>], [kind |-> "timeout", text |-> <<>>],
      [kind |-> "null_content", text |-> <<>>] }
    \cup { [kind |-> "response", text |-> <<Json(o)>>] : o \in SessionObjects }
    \cup { [kind |-> "response", text |-> t] :
             t \in { <<Json(SessionOther("array"))>>, <<Json(SessionOther("string"))>>,
                     <<Json(SessionOther("null"))>>,
                     <<Garbage>>, <<>>,
                     <<Fence, Lang, Space,
                       Json(SessionObject(Present("bool", "true"), Missing, Missing)),
                       Space, Fence>> } }

\* the dicts analyze_session_work returns
SessionAnalysis(completed, summary, new_ideas) ==
    [completed |-> completed, summary |-> summary, new_ideas |-> new_ideas]
Sentinel(summary) ==
    SessionAnalysis(PyVal("bool", "false"), PyVal("str", summary), PyVal("list", "[]"))
NoAnalysis == SessionAnalysis(PyVal("none", ""), PyVal("none", ""), PyVal("none", ""))

\* result.get(key, default)
FieldGet(field, default) ==
    IF field.present THEN PyVal(field.type, field.value) ELSE default

\* the try block of analyze_session_work for one outcome of the request
SessionTry(outcome) ==
    IF outcome.kind # "response" THEN [raised |-> TRUE, value |-> NoAnalysis]
    ELSE LET loaded == JsonLoads(sanitize_llm_response(outcome.text))
             parsed == loaded.value
         IN  IF loaded.raised THEN [raised |-> TRUE, value |-> NoAnalysis]
             ELSE IF parsed.type # "object"
             THEN [raised |-> FALSE, value |-> Sentinel("Analysis failed")]
             ELSE [raised |-> FALSE,
                   value |-> SessionAnalysis(
                       FieldGet(parsed.completed, PyVal("bool", "false")),
                       FieldGet(parsed.summary, PyVal("str", "No summary available")),
                       FieldGet(parsed.new_ideas, PyVal("list", "[]")))]

\* SessionCatch that answers as for a response that is no object
SessionCatchAsFailed(body) ==
    IF body.raised THEN Sentinel("Analysis failed") ELSE body.value

\* except Exception of analyze_session_work
SessionCatch(body) ==
    IF body.raised THEN Sentinel("Analysis error") ELSE body.value

\* ActivityAnalyzer.analyze_session_work
analyze_session_work(messages, client, outcome) ==
    LET recent == Recent(messages)
        built == BuildSessionAnalysisPrompt(recent)
    IN  IF IsEmptyTranscript(messages)
        THEN [raised |-> FALSE, returned |-> Sentinel("Empty session"),
              requested |-> FALSE, prompt |-> <<>>]
        ELSE IF client = "missing"
        THEN [raised |-> FALSE, returned |-> Sentinel("Analysis unavailable"),
              requested |-> FALSE, prompt |-> <<>>]
        ELSE IF built.raised
        THEN [raised |-> TRUE, returned |-> NoAnalysis,
              requested |-> FALSE, prompt |-> <<>>]
        ELSE [raised |-> FALSE, returned |-> SessionCatch(SessionTry(outcome)),
              requested |-> TRUE, prompt |-> built.prompt]

InitSession ==
    /\ InitCommon
    /\ hook = NoHook
    /\ tracker = <<>>
    /\ family = "session"
    /\ cache = EmptyCache

\* await analyzer.analyze_session_work(messages)
AnalyzeSessionOp ==
    /\ last_op = NoOp
    /\ \E messages \in ShortTranscripts \cup LongTranscripts, client \in {"available", "missing"},
          outcome \in SessionOutcomes :
          LET done == analyze_session_work(messages, client, outcome)
          IN  last_op' = [op |-> "analyze_session_work", messages |-> messages,
                          client |-> client, outcome |-> outcome,
                          raised |-> done.raised, returned |-> done.returned,
                          requested |-> done.requested, prompt |-> done.prompt]
    /\ UNCHANGED <<pipelineVars, family, cache, latest, callVars, hookVars>>

\* one call of analyze_session_work: the analyzer keeps nothing of a session
\* analysis from one call to the next
SpecSession == InitSession /\ [][AnalyzeSessionOp]_vars

------------------------------------------------------------------------------
(* The session hooks of ActivityTrackerHook *)

\* Path(p).resolve() with /work/app as the current directory
Resolve(path) == IF path = "." THEN "/work/app" ELSE path

\* ProjectGroupManager.set_group: the record of a group has the keys "repos"
\* and "description"; a name that exists keeps its place in the dict
set_group(groups, group_name, repos) ==
    LET data == [name |-> group_name,
                 repos |-> [i \in 1..Len(repos) |-> Resolve(repos[i])],
                 has_repositories |-> FALSE, repositories |-> <<>>]
    IN  IF Len(repos) = 0 THEN [raised |-> TRUE, groups |-> groups]
        ELSE IF \E i \in 1..Len(groups) : groups[i].name = group_name
        THEN [raised |-> FALSE,
              groups |-> [i \in 1..Len(groups) |->
                            IF groups[i].name = group_name THEN data ELSE groups[i]]]
        ELSE [raised |-> FALSE, groups |-> Append(groups, data)]

\* ProjectGroupManager.get_group_for_repo: the first group one of whose repos
\* resolves to the path, or (None, None), here a group without a name
get_group_for_repo(groups, repo_path) ==
    LET holds == { i \in 1..Len(groups) :
                     \E j \in 1..Len(groups[i].repos) :
                         Resolve(groups[i].repos[j]) = Resolve(repo_path) }
    IN  IF holds = {}
        THEN [name |-> "", repos |-> <<>>, has_repositories |-> FALSE, repositories |-> <<>>]
        ELSE groups[CHOOSE i \in holds : \A j \in holds : i <= j]

\* ActivityTrackerHook._query_group_work: one github_list_issues request per
\* entry of repositories; a request that fails or raises adds nothing
query_group_work(group_config, repository, issues, lists) ==
    LET repositories == IF group_config.name # ""
                        THEN IF group_config.has_repositories
                             THEN group_config.repositories ELSE <<>>
                        ELSE <<repository>>
        Listed(repo) == IF lists = "ok"
                        THEN SelectSeq(issues, LAMBDA i : i.repository = repo /\ i.state = "open")
                        ELSE <<>>
        RECURSIVE Extend(_)
        Extend(n) == IF n = 0 THEN <<>> ELSE Extend(n - 1) \o Listed(repositories[n])
    IN  [requests |-> repositories, open_work |-> Extend(Len(repositories))]

\* HandlerCatch that catches nothing
HandlerCatchNothing(body) == body

\* except Exception at the end of on_session_start and on_session_end
HandlerCatch(body) == [body EXCEPT !.raised = FALSE]

\* the body of ActivityTrackerHook.on_session_start; env holds what the
\* surroundings do: raises names the step outside the inner try blocks that
\* raises (_capture_context, get_group_for_repo), lists, analyzer and create
\* the outcomes of the list requests, of find_related_work and of
\* github_create_issue
on_session_start(h, issues, event, env) ==
    LET returns(raised) ==
            [raised |-> raised, session_issues |-> h.session_issues, issues |-> issues,
             queried |-> FALSE, group |-> "", requests |-> <<>>, open_work |-> <<>>,
             analyzer |-> "not_called"]
        repository == h.config.repository
        group_config == get_group_for_repo(h.groups, event.working_dir)
        work == query_group_work(group_config, repository, issues, env.lists)
        issue_number == Len(issues) + 1
    IN  IF event.session_id = "" THEN returns(FALSE)
        ELSE IF env.raises = "context" THEN returns(TRUE)
        ELSE IF ~event.coordinator THEN returns(FALSE)
        ELSE IF repository = "" THEN returns(FALSE)
        ELSE IF env.raises = "group" THEN returns(TRUE)
        ELSE [raised |-> FALSE,
              session_issues |->
                  IF h.config.auto_track_sessions /\ env.create = "ok"
                  THEN [h.session_issues EXCEPT ![event.session_id] = issue_number]
                  ELSE h.session_issues,
              issues |->
                  IF h.config.auto_track_sessions /\ env.create = "ok"
                  THEN Append(issues, [number |-> issue_number, repository |-> repository,
                                       state |-> "open", kind |-> "session"])
                  ELSE issues,
              queried |-> TRUE, group |-> group_config.name,
              requests |-> work.requests, open_work |-> work.open_work,
              analyzer |-> IF Len(work.open_work) > 0 /\ ~h.config.silent_mode
                           THEN IF env.analyzer = "raise" THEN "raised" ELSE "returned"
                           ELSE "not_called"]

\* SessionState that closes every session
SessionStateClosed(analysis) == "closed"

\* state = "closed" if analysis.get("completed") else "open"
SessionState(analysis) ==
    IF analysis.completed.type = "none" \/ analysis.completed.value \in {"false", ""}
    THEN "open" ELSE "closed"

\* the body of ActivityTrackerHook.on_session_end; env.analysis is what
\* analyze_session_work does, env.update and env.idea the outcomes of
\* github_update_issue and of github_create_issue for a new idea
on_session_end(h, issues, event, env) ==
    LET returns == [raised |-> FALSE, session_issues |-> h.session_issues,
                    issues |-> issues, state |-> ""]
        repository == h.config.repository
        session_issue_number == h.session_issues[event.session_id]
        analysed == h.config.auto_file_ideas /\ env.analysis.kind = "returned"
        analysis == env.analysis.value
        state == SessionState(analysis)
        updated == IF analysed /\ env.update = "ok"
                   THEN [issues EXCEPT ![session_issue_number].state = state]
                   ELSE issues
        filed == IF analysed /\ analysis.new_ideas = PyVal("list", "[idea]") /\ env.idea = "ok"
                 THEN Append(updated, [number |-> Len(issues) + 1, repository |-> repository,
                                       state |-> "open", kind |-> "idea"])
                 ELSE updated
    IN  IF event.session_id = "" THEN returns
        ELSE IF ~event.coordinator THEN returns
        ELSE IF repository = "" THEN returns
        ELSE IF session_issue_number = 0 THEN returns
        ELSE [raised |-> FALSE,
              session_issues |-> [h.session_issues EXCEPT ![event.session_id] = 0],
              issues |-> filed,
              state |-> IF analysed THEN state ELSE ""]

\* a hook constructed with a config (the default one, or one that differs from
\* it in one key), the groups its manager loaded from settings.yaml (none, or
\* one written by hand with a "repositories" key), and a tracker with an open
\* issue in each of two repositories
InitHooks ==
    /\ InitCommon
    /\ hook \in LET default == [repository |-> "owner/app", silent_mode |-> FALSE,
                                auto_track_sessions |-> TRUE, auto_file_ideas |-> TRUE]
                IN  { [config |-> c, session_issues |-> [sid \in {"s1"} |-> 0],
                       groups |-> g] :
                        c \in { default, [default EXCEPT !.repository = ""],
                                [default EXCEPT !.silent_mode = TRUE],
                                [default EXCEPT !.auto_track_sessions = FALSE],
                                [default EXCEPT !.auto_file_ideas = FALSE] },
                        g \in { <<>>,
                                <<[name |-> "core", repos |-> <<"/work/app">>,
                                   has_repositories |-> TRUE,
                                   repositories |-> <<"owner/app", "owner/lib">>]>> } }
    /\ tracker = <<[number |-> 1, repository |-> "owner/app", state |-> "open", kind |-> "work"],
                   [number |-> 2, repository |-> "owner/lib", state |-> "open", kind |-> "work"]>>
    /\ family = "hooks"
    /\ cache = EmptyCache

\* group_manager.set_group(group_name, repos)
SetGroupOp ==
    /\ family = "hooks"
    /\ \E repos \in { <<>>, <<".", "/work/lib">> } :
          LET done == set_group(hook.groups, "team", repos)
          IN  /\ hook' = [hook EXCEPT !.groups = done.groups]
              /\ last_op' = [op |-> "set_group", repos |-> repos, raised |-> done.raised]
    /\ UNCHANGED <<pipelineVars, family, cache, latest, callVars, tracker>>

\* await hook.on_session_start(event_data), with nothing failing around it or
\* with one or two of its steps failing
OnSessionStartOp ==
    /\ family = "hooks"
    /\ Len(tracker) < MaxIssues
    /\ \E call \in
          LET fine == [raises |-> "nothing", lists |-> "ok", analyzer |-> "ok", create |-> "ok"]
          IN  ({ [session_id |-> "", coordinator |-> TRUE, working_dir |-> "/work/app"],
                 [session_id |-> "s1", coordinator |-> FALSE, working_dir |-> "/work/app"] }
               \X {fine})
              \cup
              ({ [session_id |-> "s1", coordinator |-> TRUE, working_dir |-> "/work/app"],
                 [session_id |-> "s1", coordinator |-> TRUE, working_dir |-> "/work/other"] }
               \X ({ [fine EXCEPT !.raises = r] : r \in {"nothing", "context", "group"} }
                    \cup { [fine EXCEPT !.lists = l] : l \in {"failed", "raise"} }
                    \cup { [fine EXCEPT !.analyzer = "raise", !.create = c] :
                             c \in {"ok", "failed", "raise"} }
                    \cup { [fine EXCEPT !.create = c] : c \in {"failed", "raise"} })) :
          LET event == call[1]
              env == call[2]
              done == HandlerCatch(on_session_start(hook, tracker, event, env))
          IN  /\ hook' = [hook EXCEPT !.session_issues = done.session_issues]
              /\ tracker' = done.issues
              /\ last_op' = [op |-> "on_session_start", event |-> event,
                              create |-> env.create,
                              raised |-> done.raised, queried |-> done.queried,
                              group |-> done.group, requests |-> done.requests,
                              open_work |-> done.open_work, analyzer |-> done.analyzer]
    /\ UNCHANGED <<pipelineVars, family, cache, latest, callVars>>

\* await hook.on_session_end(event_data), with nothing failing around it or
\* with the analysis or one of the requests failing; a new idea is filed only
\* while the tracker has room for it
OnSessionEndOp ==
    /\ family = "hooks"
    /\ \E call \in
          LET Returned(c, n) ==
                  [analysis |-> [kind |-> "returned",
                                 value |-> SessionAnalysis(c, PyVal("str", "Fixed the login bug"), n)],
                   update |-> "ok", idea |-> "ok"]
              fine == Returned(PyVal("bool", "true"), PyVal("list", "[idea]"))
          IN  ({ [session_id |-> "", coordinator |-> TRUE],
                 [session_id |-> "s1", coordinator |-> FALSE] } \X {fine})
              \cup
              ({ [session_id |-> "s1", coordinator |-> TRUE] }
               \X ({ Returned(c, n) :
                        c \in { PyVal("bool", "true"), PyVal("bool", "false"),
                                PyVal("str", "yes"), PyVal("none", "null") },
                        n \in { PyVal("list", "[idea]"), PyVal("none", "null") } }
                    \cup { [fine EXCEPT !.analysis = a] :
                             a \in { [kind |-> "raise", value |-> NoAnalysis],
                                     [kind |-> "returned", value |-> Sentinel("Analysis error")] } }
                    \cup { [Returned(c, PyVal("list", "[idea]")) EXCEPT !.update = u] :
                             c \in { PyVal("bool", "true"), PyVal("bool", "false") },
                             u \in {"failed", "raise"} }
                    \cup { [fine EXCEPT !.idea = "raise"] })) :
          LET event == call[1]
              env == call[2]
              done == HandlerCatch(on_session_end(hook, tracker, event, env))
          IN  /\ Len(done.issues) <= MaxIssues
              /\ hook' = [hook EXCEPT !.session_issues = done.session_issues]
              /\ tracker' = done.issues
              /\ last_op' = [op |-> "on_session_end", event |-> event,
                              analysis |-> [kind |-> env.analysis.kind,
                                            completed |-> env.analysis.value.completed],
                              update |-> env.update,
                              raised |-> done.raised, state |-> done.state]
    /\ UNCHANGED <<pipelineVars, family, cache, latest, callVars>>

NextHooks ==
    \/ SetGroupOp
    \/ OnSessionStartOp
    \/ OnSessionEndOp

\* the events of sessions reaching one hook one after the other, with groups
\* set in between
SpecHooks == InitHooks /\ [][NextHooks]_vars

------------------------------------------------------------------------------
(* Calls of utils.sanitize_llm_response *)

\* the texts that are wrapped: white space, the word json, a JSON value, other
\* text and fence markers, with no fence marker first or last once stripped
InnerTexts ==
    LET tokens == {Space, Lang, Garbage, Fence, Json(JsonArray)}
        all == UNION { [1..n -> tokens] : n \in 0..MaxTextLen }
    IN  { x \in all : LET t == Strip(x)
                      IN  Len(t) = 0 \/ (t[1] # Fence /\ t[Len(t)] # Fence) }

\* n characters of white space
Pad(n) == [i \in 1..n |-> Space]

\* x as the completion service sends it: bare, in a json fence or in a plain
\* fence, with white space around the text and around the fence
Wrapped(x, wrap, pads) ==
    CASE wrap = "none"  -> Pad(pads[1]) \o x \o Pad(pads[4])
      [] wrap = "json"  -> Pad(pads[1]) \o <<Fence, Lang>> \o Pad(pads[2]) \o x
                               \o Pad(pads[3]) \o <<Fence>> \o Pad(pads[4])
      [] wrap = "plain" -> Pad(pads[1]) \o <<Fence>> \o Pad(pads[2]) \o x
                               \o Pad(pads[3]) \o <<Fence>> \o Pad(pads[4])

InitSanitize ==
    /\ InitCommon
    /\ hook = NoHook
    /\ tracker = <<>>
    /\ family = "sanitize"
    /\ cache = EmptyCache

\* sanitize_llm_response(response)
SanitizeOp ==
    /\ last_op = NoOp
    /\ \E x \in InnerTexts, wrap \in {"none", "json", "plain"},
          pads \in [1..4 -> 0..1] :
          last_op' = [op |-> "sanitize_llm_response", x |-> x, wrap |-> wrap,
                      pads |-> pads, response |-> Wrapped(x, wrap, pads),
                      returned |-> sanitize_llm_response(Wrapped(x, wrap, pads))]
    /\ UNCHANGED <<pipelineVars, family, cache, latest, callVars, hookVars>>

\* one call of sanitize_llm_response, a pure function
SpecSanitize == InitSanitize /\ [][SanitizeOp]_vars

------------------------------------------------------------------------------
(* Properties *)

\* the issue of open_issues at position i is among the candidates seq
Among(seq, issue) == \E k \in 1..Len(seq) : seq[k].issue = issue

\* seq is the first min(20, n) open issues in their order, each at similarity 1.0
IsLLMOnlyPrefix(seq) ==
    /\ Len(seq) = Min(20, Len(open_issues))
    /\ \A i \in 1..Len(seq) : seq[i].issue = open_issues[i] /\ seq[i].similarity = 10000

\* the similarity threshold in force: the configured one, or 0.7
ThresholdInForce ==
    IF "similarity_threshold" \in DOMAIN config THEN config.similarity_threshold ELSE 7000

\* issue i has been scored above the threshold
ScoredAbove(i) ==
    /\ emb_log[i].embedding # NoEmbedding
    /\ CosineSimilarity(context_embedding, emb_log[i].embedding) > ThresholdInForce

\* C1: find_related_work never raises an exception to its caller, whatever the
\* context, the candidates and the outcomes of the collaborators are.
C1_NeverRaises == pc # "raised"

\* C2: every embedding used to score a candidate was generated in this
\* invocation from the current text of the candidate, or read from a cache row
\* whose fingerprint is that of the current text; so the vector used is the one
\* of the current content, never the one cached for an older content.
C2_EmbeddingOfCurrentContent ==
    \A i \in 1..Len(emb_log) :
        emb_log[i].embedding # NoEmbedding =>
            LET text == IssueText(open_issues[i])
            IN  /\ \/ /\ emb_log[i].source = "generated"
                      /\ \E k \in 1..Len(embed_requests) : embed_requests[k] = text
                   \/ /\ emb_log[i].source = "cache"
                      /\ emb_log[i].row.present
                      /\ emb_log[i].row.content_hash = compute_content_hash(text)
                      /\ pickle_loads(emb_log[i].row.embedding, emb_log[i].row.intact).value
                            = emb_log[i].embedding
                /\ emb_log[i].embedding = ServiceVector(text)

\* C2 witness: in a later invocation one issue whose content changed is embedded
\* again although a row for its old content is in the cache, and another issue
\* is served from the cache.
C2_Witness ==
    /\ invocations >= 2
    /\ \E i, j \in 1..Len(emb_log) :
          /\ emb_log[i].source = "generated"
          /\ cache[open_issues[i].id].present
          /\ cache[open_issues[i].id].content_hash
                # compute_content_hash(IssueText(open_issues[i]))
          /\ emb_log[j].source = "cache"

\* C3: when generate returns none for the context, the reasoning step gets
\* exactly the first min(20, n) open issues in order at similarity 1.0, and no
\* candidate embedding is requested or read from the cache.
C3_NoContextEmbeddingGoesLLMOnly ==
    route = "no_context_embedding" =>
        /\ pc \in {"llm_reasoning", "fallback", "returned", "raised"}
        /\ IsLLMOnlyPrefix(llm_candidates)
        /\ \A k \in 1..Len(reasoning_calls) : IsLLMOnlyPrefix(reasoning_calls[k].candidates)
        /\ pc \in {"returned", "raised"} => Len(reasoning_calls) >= 1
        /\ cache_reads = <<>>
        /\ \A k \in 1..Len(embed_requests) :
              embed_requests[k] = FormatContextForEmbedding(context).text
        /\ \A i \in 1..Len(emb_log) : emb_log[i].source = "pending"

\* C3 witness: the embedding service fails on the context of a list of 21 issues
\* and the completion service is asked about the first 20.
C3_Witness ==
    /\ route = "no_context_embedding"
    /\ Len(embed_requests) = 1
    /\ Len(open_issues) = 21
    /\ Len(llm_candidates) = 20
    /\ pc = "returned"
    /\ Len(completions) = 1

\* C4: when the context embedding succeeds and the pre-filter retains nothing,
\* find_related_work does not return before the reasoning step has been given
\* the first min(20, n) open issues at similarity 1.0, and that step sends its
\* request whenever it has a client.
C4_EmptyPreFilterGoesLLMOnly ==
    route = "no_candidates" =>
        /\ context_embedding # NoEmbedding
        /\ candidates = <<>>
        /\ IsLLMOnlyPrefix(llm_candidates)
        /\ \A k \in 1..Len(reasoning_calls) : IsLLMOnlyPrefix(reasoning_calls[k].candidates)
        /\ pc = "returned" =>
              /\ Len(reasoning_calls) >= 1
              /\ reasoning_calls[Len(reasoning_calls)].client = "available"
                    => Len(completions) = 1

\* C4 witness: 21 issues are all scored, none above the threshold, and the
\* completion service is asked about the first 20.
C4_Witness ==
    /\ route = "no_candidates"
    /\ Len(open_issues) = 21
    /\ \E i \in 1..Len(emb_log) : emb_log[i].embedding # NoEmbedding
    /\ pc = "returned"
    /\ Len(completions) = 1
    /\ Len(llm_candidates) = 20

\* C5: in the pre-filter an issue is retained exactly when its embedding is
\* available and its similarity is strictly greater than the threshold (0.7
\* when not configured); it is retained with that similarity.
C5_RetainedIffStrictlyAbove ==
    route \in {"loop", "loop_escaped", "no_candidates", "prefilter"} =>
        /\ \A i \in 1..Len(open_issues) :
              Among(candidates, open_issues[i]) <=> (i < idx /\ ScoredAbove(i))
        /\ \A k \in 1..Len(candidates) :
              \E i \in 1..Len(open_issues) :
                 /\ candidates[k].issue = open_issues[i]
                 /\ candidates[k].similarity
                       = CosineSimilarity(context_embedding, emb_log[i].embedding)

\* C5 witness: an issue whose similarity equals the threshold has been scored
\* and is not retained, while another issue is retained.
C5_Witness ==
    /\ route = "prefilter"
    /\ \E i \in 1..Len(open_issues) :
          /\ emb_log[i].embedding # NoEmbedding
          /\ CosineSimilarity(context_embedding, emb_log[i].embedding) = ThresholdInForce
          /\ ~Among(candidates, open_issues[i])

\* C6: when the pre-filter retains a candidate, the candidates it passes to the
\* reasoning step are retained ones, at most 10, in non-increasing order of
\* similarity, and a retained candidate is left out only when 10 are passed
\* and all of them score at least as high.
C6_TopTenBySimilarity ==
    (route = "prefilter" /\ ~in_handler) =>
        /\ Len(llm_candidates) >= 1
        /\ Len(llm_candidates) <= 10
        /\ \A k \in 1..Len(llm_candidates) : Among(candidates, llm_candidates[k].issue)
        /\ \A k \in 1..(Len(llm_candidates) - 1) :
              llm_candidates[k].similarity >= llm_candidates[k + 1].similarity
        /\ \A c \in 1..Len(candidates) :
              ~Among(llm_candidates, candidates[c].issue) =>
                  /\ Len(llm_candidates) = 10
                  /\ \A k \in 1..Len(llm_candidates) :
                        candidates[c].similarity <= llm_candidates[k].similarity

\* C6 witness: more than 10 candidates are retained, and one that is left out
\* scores strictly lower than one that is passed on.
C6_Witness ==
    /\ route = "prefilter"
    /\ Len(candidates) > 10
    /\ \E c \in 1..Len(candidates), k \in 1..Len(llm_candidates) :
          /\ ~Among(llm_candidates, candidates[c].issue)
          /\ candidates[c].similarity < llm_candidates[k].similarity

\* C7: an issue whose embedding could not be obtained (generate returned none,
\* or the cache or the generator raised) does not end the loop: the loop goes
\* on to the next issue, every issue is processed before the pre-filter ends,
\* and the issues above the threshold are retained and reach the reasoning step.
C7_FailedIssueOnlyDropped ==
    \A j \in 1..Len(emb_log) :
        emb_log[j].source \in {"none", "raised"} =>
            /\ ~(route = "loop_escaped" /\ idx = j)
            /\ pc = "loop" => idx > j
            /\ route \in {"no_candidates", "prefilter"} =>
                  \A i \in 1..Len(open_issues) :
                     /\ emb_log[i].source # "pending"
                     /\ ScoredAbove(i) => Among(candidates, open_issues[i])
            /\ route = "prefilter" /\ ~in_handler /\ Len(candidates) <= 10 =>
                  \A i \in 1..Len(open_issues) :
                     ScoredAbove(i) => Among(llm_candidates, open_issues[i])

\* C7 witness: the cache or the generator raised for one issue, another issue of
\* the same list was retained, and the completion service was asked about it.
C7_Witness ==
    /\ route = "prefilter"
    /\ pc = "returned"
    /\ Len(completions) = 1
    /\ \E j, i \in 1..Len(emb_log) :
          /\ emb_log[j].source = "raised"
          /\ i # j
          /\ Among(llm_candidates, open_issues[i])

\* C8: an invocation of find_related_work sends at most one completion request.
C8_AtMostOneCompletionRequest == Len(completions) <= 1

\* C8 witness: the request sent from the except block of find_related_work
\* fails, and the invocation returns without a second request.
C8_Witness ==
    /\ pc = "returned"
    /\ in_handler
    /\ Len(completions) = 1
    /\ completions[1].kind \in {"raise", "timeout"}

\* the completion request failed, or its answer is not usable
Unusable(outcome) ==
    \/ outcome.kind \in {"raise", "timeout"}
    \/ /\ outcome.kind = "response"
       /\ LET loaded == JsonLoads(sanitize_llm_response(outcome.text))
          IN  \/ loaded.raised
              \/ /\ loaded.value.type = "object"
                 /\ loaded.value.has_related
                 /\ ~loaded.value.related_is_list

\* C9: when the completion request raises or times out, or its text does not
\* parse, or the related field is not a list, find_related_work returns the
\* empty list and raises nothing.
C9_UnusableCompletionGivesEmpty ==
    \A k \in 1..Len(completions) :
        Unusable(completions[k]) => pc = "returned" /\ result = <<>>

\* C9 witness: the pre-filter passed candidates on and the answer did not parse.
C9_Witness ==
    /\ pc = "returned"
    /\ route = "prefilter"
    /\ Len(completions) = 1
    /\ completions[1].kind = "response"
    /\ JsonLoads(sanitize_llm_response(completions[1].text)).raised

\* the items of a related list that name a candidate of cands
NamesCandidate(item, cands) ==
    /\ item.is_dict
    /\ item.id_kind = "id"
    /\ \E j \in 1..Len(cands) : cands[j].issue.id = item.issue_id

\* C10: every result refers to an issue that was among the candidates given to
\* the reasoning step, and the items of the response whose issue_id is missing,
\* empty or names no such candidate are dropped without changing what the other
\* items yield: the result holds one entry per item that names a candidate.
C10_ResultFromCandidatesOnly ==
    (pc = "returned" /\ Len(completions) = 1 /\ completions[1].kind = "response") =>
        LET loaded == JsonLoads(sanitize_llm_response(completions[1].text))
            kept == IF ~loaded.raised /\ loaded.value.type = "object"
                       /\ loaded.value.has_related /\ loaded.value.related_is_list
                    THEN SelectSeq(loaded.value.related,
                                   LAMBDA item : NamesCandidate(item, llm_candidates))
                    ELSE <<>>
        IN  /\ \A k \in 1..Len(result) : Among(llm_candidates, result[k].issue)
            /\ Len(result) = Len(kept)
            /\ \A k \in 1..Len(result) : result[k].issue.id = kept[k].issue_id

\* the items of the response of the invocation that name a candidate, in the
\* order of the response
MatchingItems ==
    LET loaded == JsonLoads(sanitize_llm_response(completions[1].text))
    IN  IF ~loaded.raised /\ loaded.value.type = "object"
           /\ loaded.value.has_related /\ loaded.value.related_is_list
        THEN SelectSeq(loaded.value.related,
                       LAMBDA item : NamesCandidate(item, llm_candidates))
        ELSE <<>>

\* find_related_work returned after a completion request that was answered
AnsweredAndReturned ==
    pc = "returned" /\ Len(completions) = 1 /\ completions[1].kind = "response"

\* C11: the returned list is the subsequence of the related entries of the
\* response that name a candidate, in the order of the response: entry k of
\* the result carries the issue, the reasoning and the confidence of the k-th
\* such entry, whatever the confidences are.
C11_ResultInServiceOrder ==
    AnsweredAndReturned =>
        /\ Len(result) = Len(MatchingItems)
        /\ \A k \in 1..Len(result) :
              /\ result[k].issue.id = MatchingItems[k].issue_id
              /\ result[k].reasoning = MatchingItems[k].reasoning
              /\ MatchingItems[k].has_confidence =>
                    result[k].confidence = MatchingItems[k].confidence

\* C12: every returned result has a confidence between 0.0 and 1.0.
C12_ConfidenceInUnitRange ==
    pc = "returned" =>
        \A k \in 1..Len(result) : result[k].confidence >= 0 /\ result[k].confidence <= 10000

\* C13: every returned result has a relationship_type among duplicate,
\* blocker, collaboration and related, and it is related exactly when the
\* entry of the response carried no relationship_type.
C13_RelationshipTypeInVocabulary ==
    AnsweredAndReturned =>
        \A k \in 1..Len(result) :
            /\ result[k].relationship_type
                  \in {"duplicate", "blocker", "collaboration", "related"}
            /\ Len(result) = Len(MatchingItems) =>
                  /\ ~MatchingItems[k].has_type => result[k].relationship_type = "related"
                  /\ (MatchingItems[k].has_type
                         /\ MatchingItems[k].relationship_type # "related")
                        => result[k].relationship_type # "related"

\* C14: a find_related_work call with an empty list of open issues returns the
\* empty list at once: no text is sent to the embedding service, the cache is
\* neither read nor written, and no completion request is made.
C14_EmptyListNoExternalCalls ==
    (invocations >= 1 /\ Len(open_issues) = 0) =>
        /\ pc = "returned"
        /\ result = <<>>
        /\ embed_requests = <<>>
        /\ cache_reads = <<>>
        /\ cache \in {EmptyCache, WarmCache}
        /\ reasoning_calls = <<>>
        /\ completions = <<>>

\* C14 witness: find_related_work was called with a usable context and no
\* open issues, and has returned.
C14_Witness ==
    /\ invocations = 1
    /\ open_issues = <<>>
    /\ context = PlainContext
    /\ pc = "returned"

\* a get of the issue id with content_hash on a working store misses
Misses(c, issue_id, content_hash) ==
    CacheGet(c, issue_id, content_hash, "ok") = [raised |-> FALSE, value |-> NoEmbedding]

\* C15: on a working store, a get right after set(id, vec, model, fp) returns
\* vec for fp and misses for every other fingerprint; and any get returns the
\* vector of the stored set of that id when the fingerprints agree, and
\* misses otherwise, in particular for an id that was never set.
C15_CacheRoundTrip ==
    /\ (last_op.op = "set" /\ last_op.outcome = "ok") =>
          /\ CacheGet(cache, last_op.issue_id, last_op.content_hash, "ok")
                = [raised |-> FALSE, value |-> last_op.embedding]
          /\ \A fp2 \in ApiHashes \ {last_op.content_hash} :
                Misses(cache, last_op.issue_id, fp2)
    /\ (last_op.op = "get" /\ last_op.outcome = "ok") =>
          /\ ~last_op.raised
          /\ last_op.returned =
                IF /\ latest[last_op.issue_id].present
                   /\ latest[last_op.issue_id].content_hash = last_op.content_hash
                THEN latest[last_op.issue_id].embedding
                ELSE NoEmbedding

\* C15 witness: a get has returned the vector of an earlier set.
C15_Witness ==
    /\ last_op.op = "get"
    /\ last_op.outcome = "ok"
    /\ last_op.returned # NoEmbedding
    /\ last_op.returned = latest[last_op.issue_id].embedding

\* C16: after any sequence of calls, the row of an id exists exactly when a
\* set of that id was stored and not removed by a later invalidate of the id
\* or clear, and it carries the vector, the model and the fingerprint of the
\* most recent such set; a get with another fingerprint, such as that of an
\* overwritten set, misses.
C16_SetIsUpsert ==
    \A id \in IssueIds :
        IF latest[id].present
        THEN /\ cache[id].present
             /\ pickle_loads(cache[id].embedding, cache[id].intact)
                   = [raised |-> FALSE, value |-> latest[id].embedding]
             /\ cache[id].model = latest[id].model
             /\ cache[id].content_hash = latest[id].content_hash
             /\ \A fp \in ApiHashes \ {latest[id].content_hash} : Misses(cache, id, fp)
        ELSE ~cache[id].present

\* C16 witness: a set has replaced the row of an earlier set of the same id
\* that had another vector, model and fingerprint.
C16_Witness ==
    /\ last_op.op = "set"
    /\ last_op.outcome = "ok"
    /\ last_op.before.present
    /\ last_op.before.content_hash # last_op.content_hash
    /\ last_op.before.model # last_op.model
    /\ last_op.before.embedding # pickle_dumps(last_op.embedding)
    /\ cache[last_op.issue_id].content_hash = last_op.content_hash

\* C17: on a working store, invalidate(id) raises nothing, leaves no row of id
\* (every get of id misses afterwards) and leaves the rows of all other ids as
\* they were, whether or not id had a row; clear leaves no row at all.
C17_InvalidateAndClear ==
    [][ /\ (last_op'.op = "invalidate" /\ last_op'.outcome = "ok") =>
              /\ ~last_op'.raised
              /\ ~cache'[last_op'.issue_id].present
              /\ \A fp \in ApiHashes : Misses(cache', last_op'.issue_id, fp)
              /\ \A j \in IssueIds \ {last_op'.issue_id} : cache'[j] = cache[j]
        /\ (last_op'.op = "clear" /\ last_op'.outcome = "ok") =>
              /\ ~last_op'.raised
              /\ \A j \in IssueIds : ~cache'[j].present ]_vars

\* C17 witness: invalidate has removed the row of one id while another id
\* keeps its row.
C17_Witness ==
    /\ last_op.op = "invalidate"
    /\ last_op.outcome = "ok"
    /\ last_op.before.present
    /\ ~cache[last_op.issue_id].present
    /\ \E j \in ApiIds \ {last_op.issue_id} : cache[j].present

\* the row of the issue id cannot be deserialized
Corrupt(c, issue_id) == c[issue_id].present /\ ~c[issue_id].intact

\* C18: a get that selects a row whose vector cannot be deserialized reports
\* a miss and raises nothing; and when the loop of _two_phase_analysis comes
\* to an issue with such a row for its current content, the row is not used,
\* the text is sent to the generator, and once the new vector is stored a get
\* with the same fingerprint returns it.
C18_CorruptRecordIsMiss ==
    [][ /\ \A id \in IssueIds :
              /\ Corrupt(cache, id) => Misses(cache, id, cache[id].content_hash)
              /\ Corrupt(cache', id) => Misses(cache', id, cache'[id].content_hash)
        /\ (/\ pc = "loop" /\ idx <= Len(open_issues) /\ emb_log'[idx].source # "unread"
            /\ Corrupt(cache, open_issues[idx].id)
            /\ cache[open_issues[idx].id].content_hash
                  = compute_content_hash(IssueText(open_issues[idx]))) =>
              LET id == open_issues[idx].id
                  text == IssueText(open_issues[idx])
              IN  /\ emb_log'[idx].source \in {"generated", "none", "raised"}
                  /\ emb_log'[idx].source = "generated" =>
                        embed_requests' = Append(embed_requests, text)
                  /\ (emb_log'[idx].source = "generated" /\ cache' # cache) =>
                        /\ ~Corrupt(cache', id)
                        /\ CacheGet(cache', id, compute_content_hash(text), "ok")
                              = [raised |-> FALSE, value |-> emb_log'[idx].embedding]
                        /\ emb_log'[idx].embedding = ServiceVector(text) ]_vars

\* C18 witness: the cache came with a row of issue 2 that cannot be
\* deserialized; the loop has generated the vector of issue 2 again and the
\* row now holds it.
C18_Witness ==
    /\ Len(open_issues) = 2
    /\ cache[3] = WarmCache[3]
    /\ Corrupt(WarmCache, 2)
    /\ WarmCache[2].content_hash = compute_content_hash(IssueText(open_issues[2]))
    /\ emb_log[2].source = "generated"
    /\ ~Corrupt(cache, 2)
    /\ CacheGet(cache, 2, WarmCache[2].content_hash, "ok").value = emb_log[2].embedding
    /\ emb_log[2].embedding # NoEmbedding

\* C19: set raises nothing whatever the backing store does, also when it
\* cannot be opened; and in the loop of _two_phase_analysis an issue whose
\* vector the generator has just produced is scored with that vector
\* (retained exactly when it is above the threshold), whether or not the
\* write to the cache succeeded.
C19_SetFailureSwallowed ==
    [][ (/\ pc = "loop" /\ idx <= Len(open_issues)
         /\ embed_requests' = Append(embed_requests, IssueText(open_issues[idx]))
         /\ emb_log'[idx].source # "none") =>
            LET issue == open_issues[idx]
                vec == ServiceVector(IssueText(issue))
            IN  /\ \A outcome \in StoreOutcomes :
                      ~CacheSet(cache, issue.id, vec, ConfiguredModel(config),
                                compute_content_hash(IssueText(issue)), outcome).raised
                /\ emb_log'[idx].source = "generated"
                /\ emb_log'[idx].embedding = vec
                /\ idx' = idx + 1
                /\ Among(candidates', issue)
                      <=> CosineSimilarity(context_embedding, vec) > ThresholdInForce ]_vars

\* C20: every row the pipeline has written carries the model of the generator
\* that produced its vector, also when the embedding_model of the
\* configuration was changed after the generator was constructed.
C20_RowCarriesProducerModel ==
    \A id \in IssueIds :
        (produced_by[id] # Unbuilt /\ cache[id].present) =>
            cache[id].model = produced_by[id]

\* C21: generate_batch returns as many entries as it was given texts, entry i
\* being the result for text i: None for an empty or whitespace-only text, and
\* for the other texts None or the vector of that very text.
C21_BatchKeepsPositions ==
    last_op.op = "generate_batch" =>
        /\ Len(last_op.returned) = Len(last_op.texts)
        /\ \A i \in 1..Len(last_op.texts) :
              /\ last_op.texts[i] \in {<<>>, <<" ">>, <<" ", " ">>} => last_op.returned[i].none
              /\ ~last_op.returned[i].none =>
                    last_op.returned[i].array = Raw(ServiceVector(last_op.texts[i]))

\* C22: generate never raises: a request that raises, a missing client and a
\* response without data entries or with an embedding that cannot be
\* converted all give None.
C22_GenerateNeverRaises ==
    last_op.op = "generate" =>
        /\ ~last_op.raised
        /\ (\/ last_op.client = "missing"
            \/ last_op.reply.kind \in {"raise", "no_data"}
            \/ last_op.reply.shape = "text") => last_op.returned[1].none

\* C22 witness: the service answered without data entries, and generate
\* returned None.
C22_Witness ==
    /\ last_op.op = "generate"
    /\ last_op.requested
    /\ last_op.reply.kind = "no_data"
    /\ last_op.returned[1].none
    /\ ~last_op.raised

\* C23: a value other than None returned by generate or generate_batch is a
\* non-empty vector of finite components, and an embedding of the service
\* that is empty or holds NaN or infinity is returned as None.
C23_OnlyFiniteVectors ==
    last_op.op \in {"generate", "generate_batch"} =>
        /\ \A i \in 1..Len(last_op.returned) :
              ~last_op.returned[i].none =>
                  /\ Len(last_op.returned[i].array) >= 1
                  /\ \A k \in 1..Len(last_op.returned[i].array) :
                        last_op.returned[i].array[k].kind \notin {"nan", "inf", "huge", "text"}
        /\ (/\ last_op.requested /\ last_op.reply.kind = "data"
            /\ last_op.reply.shape \in {"nan", "inf", "huge", "empty"}) =>
              last_op.returned[1].none

\* C23 witness: the service answered with an embedding holding NaN, and
\* generate returned None.
C23_Witness ==
    /\ last_op.op = "generate"
    /\ last_op.requested
    /\ last_op.reply = [kind |-> "data", shape |-> "nan"]
    /\ last_op.returned[1].none

\* C24: generate on an empty or whitespace-only text returns None and sends
\* no request.
C24_BlankTextNoRequest ==
    (last_op.op = "generate" /\ last_op.texts[1] \in {<<>>, <<" ">>, <<" ", " ">>}) =>
        /\ last_op.returned[1].none
        /\ ~last_op.requested
        /\ ~last_op.raised

\* C24 witness: generate was called with a whitespace-only text while the
\* client was available.
C24_Witness ==
    /\ last_op.op = "generate"
    /\ last_op.texts[1] = <<" ", " ">>
    /\ last_op.client = "available"
    /\ last_op.returned[1].none
    /\ ~last_op.requested

\* C25: cosine_similarity returns a value in [0, 1] for every pair of vectors
\* and never raises; a negative cosine gives 0, a vector of zero norm gives
\* exactly 0.0, and a vector of non-zero norm has similarity 1.0 with itself.
C25_CosineInUnitRange ==
    last_op.op = "cosine_similarity" =>
        LET v == last_op.vec1
            w == last_op.vec2
            zero(x) == \A i \in 1..Len(x) : x[i] = 0
        IN  /\ ~last_op.raised
            /\ last_op.returned \in 0..10000
            /\ (zero(v) \/ zero(w)) => last_op.returned = 0
            /\ (Len(v) = 2 /\ Len(w) = 2 /\ v[1] * w[1] + v[2] * w[2] < 0)
                  => last_op.returned = 0
            /\ (v = w /\ ~zero(v)) => last_op.returned = 10000

\* C25 witness: two opposite vectors, whose cosine is -1, gave 0.
C25_Witness ==
    /\ last_op.op = "cosine_similarity"
    /\ last_op.vec1 = <<3, 4>>
    /\ last_op.vec2 = <<-3, -4>>
    /\ last_op.returned = 0

\* C26: analyze_session_work never raises to its caller, for every transcript
\* (messages without role or content, or with content that is not text,
\* included) and every outcome of the completion service.
C26_SessionNeverRaises ==
    last_op.op = "analyze_session_work" => ~last_op.raised

\* C27: with a non-empty transcript and a completion call made, a call that
\* raises or times out or whose response does not parse gives exactly
\* {completed: false, summary: "Analysis error", new_ideas: []}, and a
\* response that parses to something other than an object gives exactly
\* {completed: false, summary: "Analysis failed", new_ideas: []}.
C27_ErrorAndFailedSentinels ==
    (last_op.op = "analyze_session_work" /\ last_op.requested) =>
        /\ (\/ last_op.outcome.kind \in {"raise", "timeout", "null_content"}
            \/ last_op.outcome.text \in {<<Garbage>>, <<>>}) =>
              last_op.returned =
                  [completed |-> [type |-> "bool", value |-> "false"],
                   summary |-> [type |-> "str", value |-> "Analysis error"],
                   new_ideas |-> [type |-> "list", value |-> "[]"]]
        /\ (/\ last_op.outcome.kind = "response"
            /\ Len(last_op.outcome.text) = 1
            /\ last_op.outcome.text[1].tok = "value"
            /\ last_op.outcome.text[1].value.type \in {"array", "string", "null"}) =>
              last_op.returned =
                  [completed |-> [type |-> "bool", value |-> "false"],
                   summary |-> [type |-> "str", value |-> "Analysis failed"],
                   new_ideas |-> [type |-> "list", value |-> "[]"]]

\* C27 witness: the completion call of a session analysis timed out.
C27_Witness ==
    /\ last_op.op = "analyze_session_work"
    /\ last_op.requested
    /\ last_op.outcome.kind = "timeout"
    /\ last_op.returned.summary.value = "Analysis error"

\* C28: with an empty transcript analyze_session_work returns exactly
\* {completed: false, summary: "Empty session", new_ideas: []} and sends no
\* completion request.
C28_EmptySession ==
    (last_op.op = "analyze_session_work" /\ last_op.messages = <<>>) =>
        /\ ~last_op.raised
        /\ ~last_op.requested
        /\ last_op.returned =
              [completed |-> [type |-> "bool", value |-> "false"],
               summary |-> [type |-> "str", value |-> "Empty session"],
               new_ideas |-> [type |-> "list", value |-> "[]"]]

\* C28 witness: an empty transcript was analyzed while the completion client
\* was available.
C28_Witness ==
    /\ last_op.op = "analyze_session_work"
    /\ last_op.messages = <<>>
    /\ last_op.client = "available"
    /\ last_op.returned.summary.value = "Empty session"

\* C29: every SessionAnalysis returned has a boolean completed, a text
\* summary and a list new_ideas, whatever the types of these fields in the
\* response; and a field missing from a response object gets its default
\* whatever the other two fields are.
C29_SessionAnalysisTypes ==
    (last_op.op = "analyze_session_work" /\ ~last_op.raised) =>
        /\ last_op.returned.completed.type = "bool"
        /\ last_op.returned.summary.type = "str"
        /\ last_op.returned.new_ideas.type = "list"
        /\ (/\ last_op.requested
            /\ last_op.outcome.kind = "response"
            /\ Len(last_op.outcome.text) = 1
            /\ last_op.outcome.text[1].tok = "value"
            /\ last_op.outcome.text[1].value.type = "object") =>
              LET o == last_op.outcome.text[1].value
              IN  /\ ~o.completed.present =>
                        last_op.returned.completed = [type |-> "bool", value |-> "false"]
                  /\ ~o.summary.present =>
                        last_op.returned.summary =
                            [type |-> "str", value |-> "No summary available"]
                  /\ ~o.new_ideas.present =>
                        last_op.returned.new_ideas = [type |-> "list", value |-> "[]"]

\* C30: the completion request of analyze_session_work on n messages carries
\* exactly the last min(30, n) messages, in their order.
C30_LastThirtyMessages ==
    (last_op.op = "analyze_session_work" /\ last_op.requested) =>
        LET n == Len(last_op.messages)
            m == IF n < 30 THEN n ELSE 30
        IN  /\ Len(last_op.prompt) = m
            /\ \A k \in 1..m : last_op.prompt[k].id = n - m + k

\* C30 witness: a transcript of 31 messages was analyzed, and the request
\* carries 30 messages starting with the second one.
C30_Witness ==
    /\ last_op.op = "analyze_session_work"
    /\ last_op.requested
    /\ Len(last_op.messages) = 31
    /\ Len(last_op.prompt) = 30
    /\ last_op.prompt[1].id = 2

\* C31 as stated: for every text X that neither begins nor ends with a fence
\* marker, X bare, X in a json fence and X in a plain fence, with any white
\* space around, all give X without its leading and trailing white space.
C31_FenceStripped ==
    last_op.op = "sanitize_llm_response" => last_op.returned = Strip(last_op.x)

\* C31 as amended: the same for every text X that, besides, does not begin
\* with the word json.
C31_FenceStrippedUnlessTagged ==
    (/\ last_op.op = "sanitize_llm_response"
     /\ ~(Len(last_op.x) > 0 /\ last_op.x[1] = Lang)) =>
        last_op.returned = Strip(last_op.x)

\* C31 witness: a JSON value in a plain fence with white space around the
\* value and around the fence came back bare.
C31_Witness ==
    /\ last_op.op = "sanitize_llm_response"
    /\ last_op.wrap = "plain"
    /\ last_op.pads = [i \in 1..4 |-> 1]
    /\ Len(last_op.x) = 1 /\ last_op.x[1].tok = "value"
    /\ last_op.returned = last_op.x

\* C32: when an invocation after the first one scores a candidate that has a
\* record in the store, a record with the fingerprint of the candidate's
\* current title and description causes no request to the embedding service
\* and no change of the store, and a record with another fingerprint causes
\* exactly one request, for the current text, whose vector replaces the
\* record of that id together with the new fingerprint.
C32_UnchangedHitsChangedRegenerates ==
    [][ (/\ invocations >= 2
         /\ pc = "loop"
         /\ idx <= Len(open_issues)
         /\ idx' = idx + 1
         /\ cache[open_issues[idx].id].present) =>
            LET id == open_issues[idx].id
                text == IssueText(open_issues[idx])
                fingerprint == compute_content_hash(text)
            IN  IF cache[id].content_hash = fingerprint
                THEN /\ embed_requests' = embed_requests
                     /\ cache' = cache
                ELSE /\ embed_requests' = Append(embed_requests, text)
                     /\ cache'[id].present
                     /\ cache'[id].content_hash = fingerprint
                     /\ pickle_loads(cache'[id].embedding, cache'[id].intact).value
                           = ServiceVector(text)
                     /\ \A other \in IssueIds \ {id} : cache'[other] = cache[other]
      ]_vars

\* C32 witness: in the second invocation the first candidate, edited since the
\* first invocation, was embedded again and its record carries the new
\* fingerprint, and the second candidate, unchanged, was served from the
\* store: the only requests are the one for the context and the one for the
\* edited candidate.
C32_Witness ==
    /\ family = "rerun"
    /\ invocations = 2
    /\ Len(emb_log) = 2
    /\ emb_log[1].source = "generated"
    /\ emb_log[2].source = "cache"
    /\ Len(embed_requests) = 2
    /\ cache[open_issues[1].id].content_hash = compute_content_hash(IssueText(open_issues[1]))

C34_GetTouchesOnlyOnHit ==
    (family = "cache_times" /\ last_op.op = "get") =>
        /\ last_op.returned = <<>> => last_op.after = last_op.store
        /\ \A id \in DOMAIN last_op.store :
              /\ id # last_op.issue_id => last_op.after[id] = last_op.store[id]
              /\ last_op.after[id].present = last_op.store[id].present
              /\ last_op.store[id].present =>
                    /\ last_op.after[id].embedding = last_op.store[id].embedding
                    /\ last_op.after[id].content_hash = last_op.store[id].content_hash
                    /\ last_op.after[id].model = last_op.store[id].model
                    /\ last_op.after[id].created_at = last_op.store[id].created_at

\* C35: once concurrent sets on one id have all completed, the store holds a
\* record for that id, and its vector, model and fingerprint are together those
\* of the set that committed last.
C35_LastWriterWinsWhole ==
    \A id \in {1, 2} :
        (/\ family = "concurrent"
         /\ Len(in_flight) >= 2
         /\ \A p \in 1..Len(in_flight) :
               /\ in_flight[p].pc = "done"
               /\ in_flight[p].call.op = "set"
               /\ in_flight[p].call.issue_id = id) =>
            /\ cache[id].present
            /\ \E p \in 1..Len(in_flight) :
                  /\ in_flight[p].committed > 0
                  /\ \A q \in 1..Len(in_flight) :
                        in_flight[q].committed <= in_flight[p].committed
                  /\ pickle_loads(cache[id].embedding, cache[id].intact).value
                        = in_flight[p].call.embedding
                  /\ cache[id].model = in_flight[p].call.model
                  /\ cache[id].content_hash = in_flight[p].call.content_hash

\* C35 witness: two sets on id 1 with different payloads have both been
\* committed.
C35_Witness ==
    /\ family = "concurrent"
    /\ Len(in_flight) >= 2
    /\ \A p \in 1..Len(in_flight) :
          /\ in_flight[p].pc = "done"
          /\ in_flight[p].call.op = "set"
          /\ in_flight[p].call.issue_id = 1
    /\ in_flight[1].call.content_hash # in_flight[2].call.content_hash
    /\ in_flight[1].committed > 0 /\ in_flight[2].committed > 0

\* C36: under every interleaving of get, set and invalidate, a vector that a
\* get(id, fp) returns is the vector of a set that was committed for that id
\* with that fingerprint, and a step of a call on one id leaves the records of
\* the other ids as they are.
C36_GetReturnsStoredOfSameKey ==
    [][ /\ \A id \in IssueIds :
              cache'[id] # cache[id] =>
                  \E p \in 1..Len(in_flight) :
                      /\ in_flight'[p] # in_flight[p]
                      /\ in_flight[p].call.issue_id = id
        /\ \A p \in 1..Len(in_flight') :
              (in_flight'[p].call.op = "get" /\ in_flight'[p].returned # <<>>) =>
                  \E q \in 1..Len(in_flight') :
                      /\ in_flight'[q].call.op = "set"
                      /\ in_flight'[q].committed > 0
                      /\ in_flight'[q].call.issue_id = in_flight'[p].call.issue_id
                      /\ in_flight'[q].call.content_hash = in_flight'[p].call.content_hash
                      /\ in_flight'[q].call.embedding = in_flight'[p].returned
      ]_vars

\* C36 witness: a get returned the vector stored for its id and fingerprint
\* although a set of another caller has since replaced the record with one of
\* another fingerprint.
C36_Witness ==
    /\ family = "concurrent"
    /\ \E p \in 1..Len(in_flight) :
          /\ in_flight[p].call.op = "get"
          /\ in_flight[p].pc = "done"
          /\ in_flight[p].returned # <<>>
          /\ cache[in_flight[p].call.issue_id].present
          /\ cache[in_flight[p].call.issue_id].content_hash # in_flight[p].call.content_hash

\* C37: on_session_start and on_session_end never raise; without a session id,
\* a coordinator or a configured repository they create no issue and no entry
\* of session_issues; and when find_related_work raises in on_session_start,
\* the tracking issue whose creation succeeds is created and recorded.
C37_HooksNeverRaise ==
    [][ (family = "hooks" /\ last_op'.op \in {"on_session_start", "on_session_end"}) =>
          /\ ~last_op'.raised
          /\ (\/ last_op'.event.session_id = ""
              \/ ~last_op'.event.coordinator
              \/ hook.config.repository = "") =>
                 /\ tracker' = tracker
                 /\ hook'.session_issues = hook.session_issues
          /\ (/\ last_op'.op = "on_session_start"
              /\ last_op'.analyzer = "raised"
              /\ hook.config.auto_track_sessions
              /\ last_op'.create = "ok") =>
                 /\ Len(tracker') = Len(tracker) + 1
                 /\ tracker'[Len(tracker')].kind = "session"
                 /\ tracker'[Len(tracker')].state = "open"
                 /\ hook'.session_issues[last_op'.event.session_id] = Len(tracker')
      ]_vars

\* C37 witness: find_related_work raised in on_session_start, and the tracking
\* issue of the session is the newest issue of the tracker and is recorded.
C37_Witness ==
    /\ family = "hooks"
    /\ last_op.op = "on_session_start"
    /\ last_op.analyzer = "raised"
    /\ tracker[Len(tracker)].kind = "session"
    /\ hook.session_issues[last_op.event.session_id] = Len(tracker)

\* C38 as stated: after on_session_end for a session with a tracking issue,
\* a coordinator and a repository, the entry of the session is gone whatever
\* failed, and the tracking issue is closed exactly when the analysis reports
\* completed.
C38_EntryRemovedClosedIffCompleted ==
    [][ (/\ family = "hooks"
         /\ last_op'.op = "on_session_end"
         /\ last_op'.event.session_id # ""
         /\ last_op'.event.coordinator
         /\ hook.config.repository # ""
         /\ hook.session_issues[last_op'.event.session_id] # 0) =>
          LET number == hook.session_issues[last_op'.event.session_id]
              completed == /\ hook.config.auto_file_ideas
                           /\ last_op'.analysis.kind = "returned"
                           /\ last_op'.analysis.completed.type # "none"
                           /\ last_op'.analysis.completed.value \notin {"false", ""}
          IN  /\ hook'.session_issues[last_op'.event.session_id] = 0
              /\ tracker'[number].state = "closed" <=> completed
      ]_vars

\* C38 amended: the entry of the session is gone whatever failed; the tracking
\* issue is closed exactly when the analysis reports completed and the update
\* request succeeds, and is left open otherwise.
C38_EntryRemovedClosedIffCompletedAndUpdated ==
    [][ (/\ family = "hooks"
         /\ last_op'.op = "on_session_end"
         /\ last_op'.event.session_id # ""
         /\ last_op'.event.coordinator
         /\ hook.config.repository # ""
         /\ hook.session_issues[last_op'.event.session_id] # 0) =>
          LET number == hook.session_issues[last_op'.event.session_id]
              completed == /\ hook.config.auto_file_ideas
                           /\ last_op'.analysis.kind = "returned"
                           /\ last_op'.analysis.completed.type # "none"
                           /\ last_op'.analysis.completed.value \notin {"false", ""}
          IN  /\ hook'.session_issues[last_op'.event.session_id] = 0
              /\ tracker'[number].state = "closed" <=> (completed /\ last_op'.update = "ok")
              /\ tracker'[number].state \in {"open", "closed"}
      ]_vars

\* C38 witness: on_session_end closed the tracking issue of a session whose
\* analysis reported completed, and the entry of the session is gone.
C38_Witness ==
    /\ family = "hooks"
    /\ last_op.op = "on_session_end"
    /\ last_op.state = "closed"
    /\ last_op.update = "ok"
    /\ hook.session_issues[last_op.event.session_id] = 0
    /\ \E n \in 1..Len(tracker) : tracker[n].kind = "session" /\ tracker[n].state = "closed"

\* C39: in a working directory of a group made by set_group, on_session_start
\* sends one list request per repository of the group and hands the open issues
\* of all of them to the analyzer; in a working directory of no group it sends
\* one request, for the configured repository.
C39_QueriesEveryRepositoryOfTheGroup ==
    (family = "hooks" /\ last_op.op = "on_session_start" /\ last_op.queried) =>
        /\ last_op.group = "team" =>
              LET team == CHOOSE g \in { hook.groups[i] : i \in 1..Len(hook.groups) } :
                              g.name = "team"
              IN  Len(last_op.requests) = Len(team.repos)
        /\ last_op.group = "" => last_op.requests = <<hook.config.repository>>

====
